---- MODULE Spec2Model ----
(***************************************************************************)
(* Model of the AbletonMCP client (ableton_mcp_client.py), of the tool     *)
(* adapters built on it (ableton_langchain_tool.py) and of the JSON text   *)
(* exchanged with the remote control endpoint.                             *)
(*                                                                         *)
(* Bytes on the wire are modelled as lexical units, each a pair            *)
(* <<class, text>>:                                                        *)
(*   "p"  one punctuation byte   { } [ ] : , - . and the closing quote     *)
(*   "q"  the opening quote of a string together with its characters       *)
(*   "d"  one decimal digit                                                *)
(*   "k"  one of the literals true, false, null                            *)
(*   "w"  one white-space byte (space or newline)                          *)
(*   "x"  one byte that is not valid UTF-8                                 *)
(*   "m"  the first byte of a two-byte character inside a string           *)
(*   "c"  the second byte of a two-byte character                          *)
(*   "t"  text that is not JSON (an error message, a malformed answer)     *)
(* A chunk boundary can fall between any two units, so a string can be cut *)
(* before its closing quote, a number between any two digits and a         *)
(* two-byte character between its bytes. In a string value a two-byte      *)
(* character is written as its JSON escape (\u00e9), which is how           *)
(* json.dumps writes it.                                                   *)
(***************************************************************************)
EXTENDS Integers, Sequences, FiniteSets, TLC

\* ------------------------------------------------------------------------
\* JSON values (what json.loads returns and json.dumps accepts)
\* ------------------------------------------------------------------------
Null == [t |-> "null"]
Bool(b) == [t |-> "bool", b |-> b]
Num(lit) == [t |-> "num", n |-> lit]
Str(x) == [t |-> "str", s |-> x]
Arr(xs) == [t |-> "arr", a |-> xs]
Obj(ps) == [t |-> "obj", o |-> ps]

P(x) == <<"p", x>>
Q(x) == <<"q", x>>
D(x) == <<"d", x>>
K(x) == <<"k", x>>
W(x) == <<"w", x>>
X(x) == <<"x", x>>
M(x) == <<"m", x>>
C(x) == <<"c", x>>
EndQuote == P("\"")
Eof == <<"eof", "">>

Digits == {"0", "1", "2", "3", "4", "5", "6", "7", "8", "9"}

At(s, i) == IF i \in 1..Len(s) THEN s[i] ELSE Eof

RECURSIVE Flatten(_)
Flatten(ss) == IF ss = <<>> THEN <<>> ELSE Head(ss) \o Flatten(Tail(ss))

Spaces(n) == [i \in 1..n |-> W(" ")]

NumTok(ch) == IF ch \in Digits THEN D(ch) ELSE P(ch)

\* json.dumps(v): separators ", " and ": ", no indentation
RECURSIVE json_dumps(_)
json_dumps(v) ==
    CASE v.t = "null" -> <<K("null")>>
      [] v.t = "bool" -> <<K(IF v.b THEN "true" ELSE "false")>>
      [] v.t = "num"  -> [i \in 1..Len(v.n) |-> NumTok(v.n[i])]
      [] v.t = "str"  -> <<Q(v.s), EndQuote>>
      [] v.t = "arr"  ->
            <<P("[")>>
            \o Flatten([i \in 1..Len(v.a) |->
                  (IF i > 1 THEN <<P(","), W(" ")>> ELSE <<>>) \o json_dumps(v.a[i])])
            \o <<P("]")>>
      [] v.t = "obj"  ->
            <<P("{")>>
            \o Flatten([i \in 1..Len(v.o) |->
                  (IF i > 1 THEN <<P(","), W(" ")>> ELSE <<>>)
                  \o <<Q(v.o[i][1]), EndQuote, P(":"), W(" ")>>
                  \o json_dumps(v.o[i][2])])
            \o <<P("}")>>

\* json.dumps(v, indent=2) at nesting depth lvl
RECURSIVE dumps_indent(_, _)
dumps_indent(v, lvl) ==
    CASE v.t = "arr" /\ v.a # <<>> ->
            <<P("[")>>
            \o Flatten([i \in 1..Len(v.a) |->
                  (IF i > 1 THEN <<P(",")>> ELSE <<>>)
                  \o <<W("\n")>> \o Spaces(2 * (lvl + 1))
                  \o dumps_indent(v.a[i], lvl + 1)])
            \o <<W("\n")>> \o Spaces(2 * lvl) \o <<P("]")>>
      [] v.t = "obj" /\ v.o # <<>> ->
            <<P("{")>>
            \o Flatten([i \in 1..Len(v.o) |->
                  (IF i > 1 THEN <<P(",")>> ELSE <<>>)
                  \o <<W("\n")>> \o Spaces(2 * (lvl + 1))
                  \o <<Q(v.o[i][1]), EndQuote, P(":"), W(" ")>>
                  \o dumps_indent(v.o[i][2], lvl + 1)])
            \o <<W("\n")>> \o Spaces(2 * lvl) \o <<P("}")>>
      [] OTHER -> json_dumps(v)

\* a dump that forwards the reply without its "result" field
json_dumps_indent2_without_result(v) ==
    dumps_indent(IF v.t = "obj"
                 THEN Obj(SelectSeq(v.o, LAMBDA p : p[1] # "result"))
                 ELSE v, 0)

json_dumps_indent2(v) == dumps_indent(v, 0)

\* ------------------------------------------------------------------------
\* json.loads
\* ------------------------------------------------------------------------
Fail == [ok |-> FALSE, pos |-> 0, val |-> Null]
Done(p, v) == [ok |-> TRUE, pos |-> p, val |-> v]

RECURSIVE SkipWs(_, _)
SkipWs(s, i) == IF At(s, i)[1] = "w" THEN SkipWs(s, i + 1) ELSE i

RECURSIVE ScanDigits(_, _)
ScanDigits(s, i) == IF At(s, i)[1] = "d" THEN ScanDigits(s, i + 1) ELSE i

\* NUMBER_RE  (-?(?:0|[1-9]\d*))(\.\d+)?  matched at position i
ParseNumber(s, i) ==
    LET j0 == IF At(s, i) = P("-") THEN i + 1 ELSE i
        j1 == IF At(s, j0) = D("0") THEN j0 + 1 ELSE ScanDigits(s, j0)
        j2 == IF At(s, j1) = P(".") /\ At(s, j1 + 1)[1] = "d"
              THEN ScanDigits(s, j1 + 1) ELSE j1
    IN  IF j1 = j0 THEN Fail
        ELSE Done(j2, Num([k \in 1..(j2 - i) |-> s[i + k - 1][2]]))

\* dict semantics: a repeated key keeps its first position and its last value
Put(acc, key, val) ==
    IF \E k \in 1..Len(acc) : acc[k][1] = key
    THEN [k \in 1..Len(acc) |-> IF acc[k][1] = key THEN <<key, val>> ELSE acc[k]]
    ELSE Append(acc, <<key, val>>)

\* the two-byte characters that follow the characters of a string unit:
\* where they end and the text they make
RECURSIVE ScanChars(_, _, _)
ScanChars(s, i, text) ==
    IF At(s, i)[1] = "m" /\ At(s, i + 1)[1] = "c"
    THEN ScanChars(s, i + 2, text \o s[i][2])
    ELSE [pos |-> i, text |-> text]

RECURSIVE ParseValue(_, _)
RECURSIVE ParseMembers(_, _, _)
RECURSIVE ParseElements(_, _, _)

ParseMembers(s, i, acc) ==
    LET key == IF At(s, i)[1] = "q" THEN ScanChars(s, i + 1, s[i][2])
               ELSE [pos |-> i, text |-> ""]
    IN
    IF At(s, i)[1] # "q" \/ At(s, key.pos) # EndQuote THEN Fail
    ELSE LET k1 == SkipWs(s, key.pos + 1) IN
         IF At(s, k1) # P(":") THEN Fail
         ELSE LET r == ParseValue(s, SkipWs(s, k1 + 1)) IN
              IF ~r.ok THEN Fail
              ELSE LET k2 == SkipWs(s, r.pos)
                       acc2 == Put(acc, key.text, r.val)
                   IN  IF At(s, k2) = P("}") THEN Done(k2 + 1, Obj(acc2))
                       ELSE IF At(s, k2) = P(",")
                            THEN ParseMembers(s, SkipWs(s, k2 + 1), acc2)
                            ELSE Fail

ParseElements(s, i, acc) ==
    LET r == ParseValue(s, i) IN
    IF ~r.ok THEN Fail
    ELSE LET k == SkipWs(s, r.pos)
             acc2 == Append(acc, r.val)
         IN  IF At(s, k) = P("]") THEN Done(k + 1, Arr(acc2))
             ELSE IF At(s, k) = P(",")
                  THEN ParseElements(s, SkipWs(s, k + 1), acc2)
                  ELSE Fail

ParseValue(s, i) ==
    LET c == At(s, i) IN
    CASE c[1] = "q" ->
            LET e == ScanChars(s, i + 1, c[2]) IN
            IF At(s, e.pos) = EndQuote THEN Done(e.pos + 1, Str(e.text)) ELSE Fail
      [] c = P("{") ->
            LET j == SkipWs(s, i + 1) IN
            IF At(s, j) = P("}") THEN Done(j + 1, Obj(<<>>)) ELSE ParseMembers(s, j, <<>>)
      [] c = P("[") ->
            LET j == SkipWs(s, i + 1) IN
            IF At(s, j) = P("]") THEN Done(j + 1, Arr(<<>>)) ELSE ParseElements(s, j, <<>>)
      [] c[1] = "k" ->
            Done(i + 1, CASE c[2] = "null" -> Null
                          [] c[2] = "true" -> Bool(TRUE)
                          [] OTHER -> Bool(FALSE))
      [] c[1] = "d" \/ c = P("-") -> ParseNumber(s, i)
      [] OTHER -> Fail

\* the positions at which decode('utf-8') fails: an invalid byte, a second
\* byte without its first, a first byte without its second
BadUtf8(s) ==
    {i \in 1..Len(s) :
        \/ s[i][1] = "x"
        \/ s[i][1] = "c" /\ At(s, i - 1)[1] # "m"
        \/ s[i][1] = "m" /\ At(s, i + 1)[1] # "c"}

\* bytes.decode('utf-8') followed by json.loads: the value, or the exception
json_loads(s) ==
    IF BadUtf8(s) # {}
    THEN [kind |-> "UnicodeDecodeError", val |-> Null]
    ELSE LET r == ParseValue(s, SkipWs(s, 1)) IN
         IF r.ok /\ SkipWs(s, r.pos) = Len(s) + 1
         THEN [kind |-> "ok", val |-> r.val]
         ELSE [kind |-> "JSONDecodeError", val |-> Null]

\* ------------------------------------------------------------------------
\* Command methods of AbletonMCPClient, argument schemas, tool adapters.
\* A method is its command "type", its Python parameters with their
\* defaults, and the keys of its "params" dictionary with the parameter each
\* key takes its value from. A tool adapter is its name, its args_schema,
\* the parameters of _run with their defaults, the client method _run calls
\* and the local names it passes, in positional order.
\* ------------------------------------------------------------------------
Required == [t |-> "required"]

get_session_info ==
    [name |-> "get_session_info", type |-> "get_session_info", transport |-> "tcp", has_params |-> FALSE,
     params |-> <<>>,
     keys |-> <<>>]

set_tempo ==
    [name |-> "set_tempo", type |-> "set_tempo", transport |-> "tcp", has_params |-> TRUE,
     params |-> << <<"tempo", Required>> >>,
     keys |-> << <<"tempo", "tempo">> >>]

start_playback ==
    [name |-> "start_playback", type |-> "start_playback", transport |-> "tcp", has_params |-> FALSE,
     params |-> <<>>,
     keys |-> <<>>]

stop_playback ==
    [name |-> "stop_playback", type |-> "stop_playback", transport |-> "tcp", has_params |-> FALSE,
     params |-> <<>>,
     keys |-> <<>>]

get_track_info ==
    [name |-> "get_track_info", type |-> "get_track_info", transport |-> "tcp", has_params |-> TRUE,
     params |-> << <<"track_index", Required>> >>,
     keys |-> << <<"track_index", "track_index">> >>]

create_midi_track ==
    [name |-> "create_midi_track", type |-> "create_midi_track", transport |-> "tcp", has_params |-> TRUE,
     params |-> << <<"index", Num(<<"-", "1">>)>> >>,
     keys |-> << <<"index", "index">> >>]

create_audio_track ==
    [name |-> "create_audio_track", type |-> "create_audio_track", transport |-> "tcp", has_params |-> TRUE,
     params |-> << <<"index", Num(<<"-", "1">>)>> >>,
     keys |-> << <<"index", "index">> >>]

set_track_name ==
    [name |-> "set_track_name", type |-> "set_track_name", transport |-> "tcp", has_params |-> TRUE,
     params |-> << <<"track_index", Required>>, <<"name", Required>> >>,
     keys |-> << <<"track_index", "track_index">>, <<"name", "name">> >>]

set_track_level ==
    [name |-> "set_track_level", type |-> "set_track_level", transport |-> "tcp", has_params |-> TRUE,
     params |-> << <<"track_index", Required>>, <<"level", Required>> >>,
     keys |-> << <<"track_index", "track_index">>, <<"level", "level">> >>]

set_track_pan ==
    [name |-> "set_track_pan", type |-> "set_track_pan", transport |-> "tcp", has_params |-> TRUE,
     params |-> << <<"track_index", Required>>, <<"pan", Required>> >>,
     keys |-> << <<"track_index", "track_index">>, <<"pan", "pan">> >>]

create_clip ==
    [name |-> "create_clip", type |-> "create_clip", transport |-> "tcp", has_params |-> TRUE,
     params |-> << <<"track_index", Required>>, <<"clip_index", Required>>, <<"length", Num(<<"4", ".", "0">>)>> >>,
     keys |-> << <<"track_index", "track_index">>, <<"clip_index", "clip_index">>, <<"length", "length">> >>]

set_clip_name ==
    [name |-> "set_clip_name", type |-> "set_clip_name", transport |-> "tcp", has_params |-> TRUE,
     params |-> << <<"track_index", Required>>, <<"clip_index", Required>>, <<"name", Required>> >>,
     keys |-> << <<"track_index", "track_index">>, <<"clip_index", "clip_index">>, <<"name", "name">> >>]

fire_clip ==
    [name |-> "fire_clip", type |-> "fire_clip", transport |-> "tcp", has_params |-> TRUE,
     params |-> << <<"track_index", Required>>, <<"clip_index", Required>> >>,
     keys |-> << <<"track_index", "track_index">>, <<"clip_index", "clip_index">> >>]

stop_clip ==
    [name |-> "stop_clip", type |-> "stop_clip", transport |-> "tcp", has_params |-> TRUE,
     params |-> << <<"track_index", Required>>, <<"clip_index", Required>> >>,
     keys |-> << <<"track_index", "track_index">>, <<"clip_index", "clip_index">> >>]

set_clip_loop_parameters ==
    [name |-> "set_clip_loop_parameters", type |-> "set_clip_loop_parameters", transport |-> "tcp", has_params |-> TRUE,
     params |-> << <<"track_index", Required>>, <<"clip_index", Required>>, <<"loop_start", Required>>, <<"loop_end", Required>>, <<"loop_enabled", Bool(TRUE)>> >>,
     keys |-> << <<"track_index", "track_index">>, <<"clip_index", "clip_index">>, <<"loop_start", "loop_start">>, <<"loop_end", "loop_end">>, <<"loop_enabled", "loop_enabled">> >>]

set_clip_follow_action ==
    [name |-> "set_clip_follow_action", type |-> "set_clip_follow_action", transport |-> "tcp", has_params |-> TRUE,
     params |-> << <<"track_index", Required>>, <<"clip_index", Required>>, <<"action", Required>>, <<"target_clip", Null>>, <<"chance", Num(<<"1", ".", "0">>)>>, <<"time_val", Num(<<"1", ".", "0">>)>> >>,
     keys |-> << <<"track_index", "track_index">>, <<"clip_index", "clip_index">>, <<"action", "action">>, <<"target_clip", "target_clip">>, <<"chance", "chance">>, <<"time", "time_val">> >>]

add_notes_to_clip ==
    [name |-> "add_notes_to_clip", type |-> "add_notes_to_clip", transport |-> "tcp", has_params |-> TRUE,
     params |-> << <<"track_index", Required>>, <<"clip_index", Required>>, <<"notes", Required>> >>,
     keys |-> << <<"track_index", "track_index">>, <<"clip_index", "clip_index">>, <<"notes", "notes">> >>]

get_notes_from_clip ==
    [name |-> "get_notes_from_clip", type |-> "get_notes_from_clip", transport |-> "tcp", has_params |-> TRUE,
     params |-> << <<"track_index", Required>>, <<"clip_index", Required>> >>,
     keys |-> << <<"track_index", "track_index">>, <<"clip_index", "clip_index">> >>]

batch_edit_notes_in_clip ==
    [name |-> "batch_edit_notes_in_clip", type |-> "batch_edit_notes_in_clip", transport |-> "tcp", has_params |-> TRUE,
     params |-> << <<"track_index", Required>>, <<"clip_index", Required>>, <<"note_ids", Required>>, <<"note_data_array", Required>> >>,
     keys |-> << <<"track_index", "track_index">>, <<"clip_index", "clip_index">>, <<"note_ids", "note_ids">>, <<"note_data_array", "note_data_array">> >>]

delete_notes_from_clip ==
    [name |-> "delete_notes_from_clip", type |-> "delete_notes_from_clip", transport |-> "tcp", has_params |-> TRUE,
     params |-> << <<"track_index", Required>>, <<"clip_index", Required>>, <<"from_time", Null>>, <<"to_time", Null>>, <<"from_pitch", Null>>, <<"to_pitch", Null>> >>,
     keys |-> << <<"track_index", "track_index">>, <<"clip_index", "clip_index">>, <<"from_time", "from_time">>, <<"to_time", "to_time">>, <<"from_pitch", "from_pitch">>, <<"to_pitch", "to_pitch">> >>]

transpose_notes_in_clip ==
    [name |-> "transpose_notes_in_clip", type |-> "transpose_notes_in_clip", transport |-> "tcp", has_params |-> TRUE,
     params |-> << <<"track_index", Required>>, <<"clip_index", Required>>, <<"semitones", Required>>, <<"from_time", Null>>, <<"to_time", Null>>, <<"from_pitch", Null>>, <<"to_pitch", Null>> >>,
     keys |-> << <<"track_index", "track_index">>, <<"clip_index", "clip_index">>, <<"semitones", "semitones">>, <<"from_time", "from_time">>, <<"to_time", "to_time">>, <<"from_pitch", "from_pitch">>, <<"to_pitch", "to_pitch">> >>]

quantize_notes_in_clip ==
    [name |-> "quantize_notes_in_clip", type |-> "quantize_notes_in_clip", transport |-> "tcp", has_params |-> TRUE,
     params |-> << <<"track_index", Required>>, <<"clip_index", Required>>, <<"grid_size", Num(<<"0", ".", "2", "5">>)>>, <<"strength", Num(<<"1", ".", "0">>)>>, <<"from_time", Null>>, <<"to_time", Null>>, <<"from_pitch", Null>>, <<"to_pitch", Null>> >>,
     keys |-> << <<"track_index", "track_index">>, <<"clip_index", "clip_index">>, <<"grid_size", "grid_size">>, <<"strength", "strength">>, <<"from_time", "from_time">>, <<"to_time", "to_time">>, <<"from_pitch", "from_pitch">>, <<"to_pitch", "to_pitch">> >>]

randomize_note_timing ==
    [name |-> "randomize_note_timing", type |-> "randomize_note_timing", transport |-> "tcp", has_params |-> TRUE,
     params |-> << <<"track_index", Required>>, <<"clip_index", Required>>, <<"amount", Num(<<"0", ".", "1">>)>>, <<"from_time", Null>>, <<"to_time", Null>>, <<"from_pitch", Null>>, <<"to_pitch", Null>> >>,
     keys |-> << <<"track_index", "track_index">>, <<"clip_index", "clip_index">>, <<"amount", "amount">>, <<"from_time", "from_time">>, <<"to_time", "to_time">>, <<"from_pitch", "from_pitch">>, <<"to_pitch", "to_pitch">> >>]

set_note_probability ==
    [name |-> "set_note_probability", type |-> "set_note_probability", transport |-> "tcp", has_params |-> TRUE,
     params |-> << <<"track_index", Required>>, <<"clip_index", Required>>, <<"probability", Num(<<"1", ".", "0">>)>>, <<"from_time", Null>>, <<"to_time", Null>>, <<"from_pitch", Null>>, <<"to_pitch", Null>> >>,
     keys |-> << <<"track_index", "track_index">>, <<"clip_index", "clip_index">>, <<"probability", "probability">>, <<"from_time", "from_time">>, <<"to_time", "to_time">>, <<"from_pitch", "from_pitch">>, <<"to_pitch", "to_pitch">> >>]

get_device_parameters ==
    [name |-> "get_device_parameters", type |-> "get_device_parameters", transport |-> "tcp", has_params |-> TRUE,
     params |-> << <<"track_index", Required>>, <<"device_index", Required>> >>,
     keys |-> << <<"track_index", "track_index">>, <<"device_index", "device_index">> >>]

set_device_parameter ==
    [name |-> "set_device_parameter", type |-> "set_device_parameter", transport |-> "tcp", has_params |-> TRUE,
     params |-> << <<"track_index", Required>>, <<"device_index", Required>>, <<"parameter_index", Required>>, <<"value", Required>> >>,
     keys |-> << <<"track_index", "track_index">>, <<"device_index", "device_index">>, <<"parameter_index", "parameter_index">>, <<"value", "value">> >>]

batch_set_device_parameters ==
    [name |-> "batch_set_device_parameters", type |-> "batch_set_device_parameters", transport |-> "tcp", has_params |-> TRUE,
     params |-> << <<"track_index", Required>>, <<"device_index", Required>>, <<"parameter_indices", Required>>, <<"values", Required>> >>,
     keys |-> << <<"track_index", "track_index">>, <<"device_index", "device_index">>, <<"parameter_indices", "parameter_indices">>, <<"values", "values">> >>]

\* the UDP variant writing the parameter index under another key
set_device_parameter_udp_short_key ==
    [name |-> "set_device_parameter_udp", type |-> "set_device_parameter", transport |-> "udp", has_params |-> TRUE,
     params |-> << <<"track_index", Required>>, <<"device_index", Required>>, <<"parameter_index", Required>>, <<"value", Required>> >>,
     keys |-> << <<"track_index", "track_index">>, <<"device_index", "device_index">>, <<"param_index", "parameter_index">>, <<"value", "value">> >>]

set_device_parameter_udp ==
    [name |-> "set_device_parameter_udp", type |-> "set_device_parameter", transport |-> "udp", has_params |-> TRUE,
     params |-> << <<"track_index", Required>>, <<"device_index", Required>>, <<"parameter_index", Required>>, <<"value", Required>> >>,
     keys |-> << <<"track_index", "track_index">>, <<"device_index", "device_index">>, <<"parameter_index", "parameter_index">>, <<"value", "value">> >>]

batch_set_device_parameters_udp ==
    [name |-> "batch_set_device_parameters_udp", type |-> "batch_set_device_parameters", transport |-> "udp", has_params |-> TRUE,
     params |-> << <<"track_index", Required>>, <<"device_index", Required>>, <<"parameter_indices", Required>>, <<"values", Required>> >>,
     keys |-> << <<"track_index", "track_index">>, <<"device_index", "device_index">>, <<"parameter_indices", "parameter_indices">>, <<"values", "values">> >>]

load_instrument_or_effect ==
    [name |-> "load_instrument_or_effect", type |-> "load_instrument_or_effect", transport |-> "tcp", has_params |-> TRUE,
     params |-> << <<"track_index", Required>>, <<"uri", Required>> >>,
     keys |-> << <<"track_index", "track_index">>, <<"uri", "uri">> >>]

get_browser_tree ==
    [name |-> "get_browser_tree", type |-> "get_browser_tree", transport |-> "tcp", has_params |-> TRUE,
     params |-> << <<"category_type", Str("all")>> >>,
     keys |-> << <<"category_type", "category_type">> >>]

get_browser_items_at_path ==
    [name |-> "get_browser_items_at_path", type |-> "get_browser_items_at_path", transport |-> "tcp", has_params |-> TRUE,
     params |-> << <<"path", Required>> >>,
     keys |-> << <<"path", "path">> >>]

load_drum_kit ==
    [name |-> "load_drum_kit", type |-> "load_drum_kit", transport |-> "tcp", has_params |-> TRUE,
     params |-> << <<"track_index", Required>>, <<"rack_uri", Required>>, <<"kit_path", Required>> >>,
     keys |-> << <<"track_index", "track_index">>, <<"rack_uri", "rack_uri">>, <<"kit_path", "kit_path">> >>]

get_clip_envelope ==
    [name |-> "get_clip_envelope", type |-> "get_clip_envelope", transport |-> "tcp", has_params |-> TRUE,
     params |-> << <<"track_index", Required>>, <<"clip_index", Required>>, <<"device_index", Required>>, <<"parameter_index", Required>> >>,
     keys |-> << <<"track_index", "track_index">>, <<"clip_index", "clip_index">>, <<"device_index", "device_index">>, <<"parameter_index", "parameter_index">> >>]

add_clip_envelope_point ==
    [name |-> "add_clip_envelope_point", type |-> "add_clip_envelope_point", transport |-> "tcp", has_params |-> TRUE,
     params |-> << <<"track_index", Required>>, <<"clip_index", Required>>, <<"device_index", Required>>, <<"parameter_index", Required>>, <<"time_val", Required>>, <<"value", Required>>, <<"curve_type", Num(<<"0">>)>> >>,
     keys |-> << <<"track_index", "track_index">>, <<"clip_index", "clip_index">>, <<"device_index", "device_index">>, <<"parameter_index", "parameter_index">>, <<"time", "time_val">>, <<"value", "value">>, <<"curve_type", "curve_type">> >>]

clear_clip_envelope ==
    [name |-> "clear_clip_envelope", type |-> "clear_clip_envelope", transport |-> "tcp", has_params |-> TRUE,
     params |-> << <<"track_index", Required>>, <<"clip_index", Required>>, <<"device_index", Required>>, <<"parameter_index", Required>> >>,
     keys |-> << <<"track_index", "track_index">>, <<"clip_index", "clip_index">>, <<"device_index", "device_index">>, <<"parameter_index", "parameter_index">> >>]

get_scenes_info ==
    [name |-> "get_scenes_info", type |-> "get_scenes_info", transport |-> "tcp", has_params |-> FALSE,
     params |-> <<>>,
     keys |-> <<>>]

create_scene ==
    [name |-> "create_scene", type |-> "create_scene", transport |-> "tcp", has_params |-> TRUE,
     params |-> << <<"index", Num(<<"-", "1">>)>> >>,
     keys |-> << <<"index", "index">> >>]

set_scene_name ==
    [name |-> "set_scene_name", type |-> "set_scene_name", transport |-> "tcp", has_params |-> TRUE,
     params |-> << <<"index", Required>>, <<"name", Required>> >>,
     keys |-> << <<"index", "index">>, <<"name", "name">> >>]

delete_scene ==
    [name |-> "delete_scene", type |-> "delete_scene", transport |-> "tcp", has_params |-> TRUE,
     params |-> << <<"index", Required>> >>,
     keys |-> << <<"index", "index">> >>]

fire_scene ==
    [name |-> "fire_scene", type |-> "fire_scene", transport |-> "tcp", has_params |-> TRUE,
     params |-> << <<"index", Required>> >>,
     keys |-> << <<"index", "index">> >>]

import_audio_file ==
    [name |-> "import_audio_file", type |-> "import_audio_file", transport |-> "tcp", has_params |-> TRUE,
     params |-> << <<"uri", Required>>, <<"track_index", Num(<<"-", "1">>)>>, <<"clip_index", Num(<<"0">>)>>, <<"create_track_if_needed", Bool(TRUE)>> >>,
     keys |-> << <<"uri", "uri">>, <<"track_index", "track_index">>, <<"clip_index", "clip_index">>, <<"create_track_if_needed", "create_track_if_needed">> >>]

ClientMethods ==
    <<get_session_info,
      set_tempo,
      start_playback,
      stop_playback,
      get_track_info,
      create_midi_track,
      create_audio_track,
      set_track_name,
      set_track_level,
      set_track_pan,
      create_clip,
      set_clip_name,
      fire_clip,
      stop_clip,
      set_clip_loop_parameters,
      set_clip_follow_action,
      add_notes_to_clip,
      get_notes_from_clip,
      batch_edit_notes_in_clip,
      delete_notes_from_clip,
      transpose_notes_in_clip,
      quantize_notes_in_clip,
      randomize_note_timing,
      set_note_probability,
      get_device_parameters,
      set_device_parameter,
      batch_set_device_parameters,
      set_device_parameter_udp,
      batch_set_device_parameters_udp,
      load_instrument_or_effect,
      get_browser_tree,
      get_browser_items_at_path,
      load_drum_kit,
      get_clip_envelope,
      add_clip_envelope_point,
      clear_clip_envelope,
      get_scenes_info,
      create_scene,
      set_scene_name,
      delete_scene,
      fire_scene,
      import_audio_file>>

SessionInfoInput ==
    [name |-> "SessionInfoInput",
     fields |-> <<>>]

TrackInfoInput ==
    [name |-> "TrackInfoInput",
     fields |-> << <<"track_index", "int", Required>> >>]

SetTempoInput ==
    [name |-> "SetTempoInput",
     fields |-> << <<"tempo", "float", Required>> >>]

CreateMidiTrackInput ==
    [name |-> "CreateMidiTrackInput",
     fields |-> << <<"index", "int", Num(<<"-", "1">>)>> >>]

CreateClipInput ==
    [name |-> "CreateClipInput",
     fields |-> << <<"track_index", "int", Required>>, <<"clip_index", "int", Required>>, <<"length", "float", Num(<<"4", ".", "0">>)>> >>]

AddNotesInput ==
    [name |-> "AddNotesInput",
     fields |-> << <<"track_index", "int", Required>>, <<"clip_index", "int", Required>>, <<"notes", "list_dict", Required>> >>]

FireClipInput ==
    [name |-> "FireClipInput",
     fields |-> << <<"track_index", "int", Required>>, <<"clip_index", "int", Required>> >>]

StopClipInput ==
    [name |-> "StopClipInput",
     fields |-> << <<"track_index", "int", Required>>, <<"clip_index", "int", Required>> >>]

SetTrackNameInput ==
    [name |-> "SetTrackNameInput",
     fields |-> << <<"track_index", "int", Required>>, <<"name", "str", Required>> >>]

SetClipNameInput ==
    [name |-> "SetClipNameInput",
     fields |-> << <<"track_index", "int", Required>>, <<"clip_index", "int", Required>>, <<"name", "str", Required>> >>]

GetDeviceParametersInput ==
    [name |-> "GetDeviceParametersInput",
     fields |-> << <<"track_index", "int", Required>>, <<"device_index", "int", Required>> >>]

SetDeviceParameterInput ==
    [name |-> "SetDeviceParameterInput",
     fields |-> << <<"track_index", "int", Required>>, <<"device_index", "int", Required>>, <<"parameter_index", "int", Required>>, <<"value", "float", Required>> >>]

BatchSetDeviceParametersInput ==
    [name |-> "BatchSetDeviceParametersInput",
     fields |-> << <<"track_index", "int", Required>>, <<"device_index", "int", Required>>, <<"parameter_indices", "list_int", Required>>, <<"values", "list_float", Required>> >>]

LoadInstrumentOrEffectInput ==
    [name |-> "LoadInstrumentOrEffectInput",
     fields |-> << <<"track_index", "int", Required>>, <<"uri", "str", Required>> >>]

GetBrowserTreeInput ==
    [name |-> "GetBrowserTreeInput",
     fields |-> << <<"category_type", "str", Str("all")>> >>]

GetBrowserItemsAtPathInput ==
    [name |-> "GetBrowserItemsAtPathInput",
     fields |-> << <<"path", "str", Required>> >>]

LoadDrumKitInput ==
    [name |-> "LoadDrumKitInput",
     fields |-> << <<"track_index", "int", Required>>, <<"rack_uri", "str", Required>>, <<"kit_path", "str", Required>> >>]

GetNotesFromClipInput ==
    [name |-> "GetNotesFromClipInput",
     fields |-> << <<"track_index", "int", Required>>, <<"clip_index", "int", Required>> >>]

DeleteNotesFromClipInput ==
    [name |-> "DeleteNotesFromClipInput",
     fields |-> << <<"track_index", "int", Required>>, <<"clip_index", "int", Required>>, <<"from_time", "opt_float", Null>>, <<"to_time", "opt_float", Null>>, <<"from_pitch", "opt_int", Null>>, <<"to_pitch", "opt_int", Null>> >>]

TransposeNotesInput ==
    [name |-> "TransposeNotesInput",
     fields |-> << <<"track_index", "int", Required>>, <<"clip_index", "int", Required>>, <<"semitones", "int", Required>>, <<"from_time", "opt_float", Null>>, <<"to_time", "opt_float", Null>>, <<"from_pitch", "opt_int", Null>>, <<"to_pitch", "opt_int", Null>> >>]

QuantizeNotesInput ==
    [name |-> "QuantizeNotesInput",
     fields |-> << <<"track_index", "int", Required>>, <<"clip_index", "int", Required>>, <<"grid_size", "float", Num(<<"0", ".", "2", "5">>)>>, <<"strength", "float", Num(<<"1", ".", "0">>)>>, <<"from_time", "opt_float", Null>>, <<"to_time", "opt_float", Null>>, <<"from_pitch", "opt_int", Null>>, <<"to_pitch", "opt_int", Null>> >>]

GetScenesInfoInput ==
    [name |-> "GetScenesInfoInput",
     fields |-> <<>>]

CreateSceneInput ==
    [name |-> "CreateSceneInput",
     fields |-> << <<"index", "int", Num(<<"-", "1">>)>> >>]

FireSceneInput ==
    [name |-> "FireSceneInput",
     fields |-> << <<"index", "int", Required>> >>]

ImportAudioFileInput ==
    [name |-> "ImportAudioFileInput",
     fields |-> << <<"uri", "str", Required>>, <<"track_index", "int", Num(<<"-", "1">>)>>, <<"clip_index", "int", Num(<<"0">>)>>, <<"create_track_if_needed", "bool", Bool(TRUE)>> >>]

AbletonSessionInfoTool ==
    [name |-> "get_session_info", args_schema |-> SessionInfoInput,
     run_params |-> <<>>,
     method |-> get_session_info, call_args |-> <<>>]

AbletonTrackInfoTool ==
    [name |-> "get_track_info", args_schema |-> TrackInfoInput,
     run_params |-> << <<"track_index", Required>> >>,
     method |-> get_track_info, call_args |-> << "track_index" >>]

AbletonSetTempoTool ==
    [name |-> "set_tempo", args_schema |-> SetTempoInput,
     run_params |-> << <<"tempo", Required>> >>,
     method |-> set_tempo, call_args |-> << "tempo" >>]

AbletonCreateMidiTrackTool ==
    [name |-> "create_midi_track", args_schema |-> CreateMidiTrackInput,
     run_params |-> << <<"index", Num(<<"-", "1">>)>> >>,
     method |-> create_midi_track, call_args |-> << "index" >>]

AbletonCreateClipTool ==
    [name |-> "create_clip", args_schema |-> CreateClipInput,
     run_params |-> << <<"track_index", Required>>, <<"clip_index", Required>>, <<"length", Num(<<"4", ".", "0">>)>> >>,
     method |-> create_clip, call_args |-> << "track_index", "clip_index", "length" >>]

AbletonAddNotesTool ==
    [name |-> "add_notes_to_clip", args_schema |-> AddNotesInput,
     run_params |-> << <<"track_index", Required>>, <<"clip_index", Required>>, <<"notes", Required>> >>,
     method |-> add_notes_to_clip, call_args |-> << "track_index", "clip_index", "notes" >>]

AbletonFireClipTool ==
    [name |-> "fire_clip", args_schema |-> FireClipInput,
     run_params |-> << <<"track_index", Required>>, <<"clip_index", Required>> >>,
     method |-> fire_clip, call_args |-> << "track_index", "clip_index" >>]

AbletonStopClipTool ==
    [name |-> "stop_clip", args_schema |-> StopClipInput,
     run_params |-> << <<"track_index", Required>>, <<"clip_index", Required>> >>,
     method |-> stop_clip, call_args |-> << "track_index", "clip_index" >>]

AbletonStartPlaybackTool ==
    [name |-> "start_playback", args_schema |-> SessionInfoInput,
     run_params |-> <<>>,
     method |-> start_playback, call_args |-> <<>>]

AbletonStopPlaybackTool ==
    [name |-> "stop_playback", args_schema |-> SessionInfoInput,
     run_params |-> <<>>,
     method |-> stop_playback, call_args |-> <<>>]

AbletonSetTrackNameTool ==
    [name |-> "set_track_name", args_schema |-> SetTrackNameInput,
     run_params |-> << <<"track_index", Required>>, <<"name", Required>> >>,
     method |-> set_track_name, call_args |-> << "track_index", "name" >>]

AbletonSetClipNameTool ==
    [name |-> "set_clip_name", args_schema |-> SetClipNameInput,
     run_params |-> << <<"track_index", Required>>, <<"clip_index", Required>>, <<"name", Required>> >>,
     method |-> set_clip_name, call_args |-> << "track_index", "clip_index", "name" >>]

AbletonGetDeviceParametersTool ==
    [name |-> "get_device_parameters", args_schema |-> GetDeviceParametersInput,
     run_params |-> << <<"track_index", Required>>, <<"device_index", Required>> >>,
     method |-> get_device_parameters, call_args |-> << "track_index", "device_index" >>]

AbletonSetDeviceParameterTool ==
    [name |-> "set_device_parameter", args_schema |-> SetDeviceParameterInput,
     run_params |-> << <<"track_index", Required>>, <<"device_index", Required>>, <<"parameter_index", Required>>, <<"value", Required>> >>,
     method |-> set_device_parameter, call_args |-> << "track_index", "device_index", "parameter_index", "value" >>]

AbletonBatchSetDeviceParametersTool ==
    [name |-> "batch_set_device_parameters", args_schema |-> BatchSetDeviceParametersInput,
     run_params |-> << <<"track_index", Required>>, <<"device_index", Required>>, <<"parameter_indices", Required>>, <<"values", Required>> >>,
     method |-> batch_set_device_parameters, call_args |-> << "track_index", "device_index", "parameter_indices", "values" >>]

AbletonLoadInstrumentOrEffectTool ==
    [name |-> "load_instrument_or_effect", args_schema |-> LoadInstrumentOrEffectInput,
     run_params |-> << <<"track_index", Required>>, <<"uri", Required>> >>,
     method |-> load_instrument_or_effect, call_args |-> << "track_index", "uri" >>]

AbletonGetBrowserTreeTool ==
    [name |-> "get_browser_tree", args_schema |-> GetBrowserTreeInput,
     run_params |-> << <<"category_type", Str("all")>> >>,
     method |-> get_browser_tree, call_args |-> << "category_type" >>]

AbletonGetBrowserItemsAtPathTool ==
    [name |-> "get_browser_items_at_path", args_schema |-> GetBrowserItemsAtPathInput,
     run_params |-> << <<"path", Required>> >>,
     method |-> get_browser_items_at_path, call_args |-> << "path" >>]

AbletonLoadDrumKitTool ==
    [name |-> "load_drum_kit", args_schema |-> LoadDrumKitInput,
     run_params |-> << <<"track_index", Required>>, <<"rack_uri", Required>>, <<"kit_path", Required>> >>,
     method |-> load_drum_kit, call_args |-> << "track_index", "rack_uri", "kit_path" >>]

AbletonGetNotesFromClipTool ==
    [name |-> "get_notes_from_clip", args_schema |-> GetNotesFromClipInput,
     run_params |-> << <<"track_index", Required>>, <<"clip_index", Required>> >>,
     method |-> get_notes_from_clip, call_args |-> << "track_index", "clip_index" >>]

AbletonDeleteNotesFromClipTool ==
    [name |-> "delete_notes_from_clip", args_schema |-> DeleteNotesFromClipInput,
     run_params |-> << <<"track_index", Required>>, <<"clip_index", Required>>, <<"from_time", Null>>, <<"to_time", Null>>, <<"from_pitch", Null>>, <<"to_pitch", Null>> >>,
     method |-> delete_notes_from_clip, call_args |-> << "track_index", "clip_index", "from_time", "to_time", "from_pitch", "to_pitch" >>]

AbletonTransposeNotesTool ==
    [name |-> "transpose_notes_in_clip", args_schema |-> TransposeNotesInput,
     run_params |-> << <<"track_index", Required>>, <<"clip_index", Required>>, <<"semitones", Required>>, <<"from_time", Null>>, <<"to_time", Null>>, <<"from_pitch", Null>>, <<"to_pitch", Null>> >>,
     method |-> transpose_notes_in_clip, call_args |-> << "track_index", "clip_index", "semitones", "from_time", "to_time", "from_pitch", "to_pitch" >>]

AbletonQuantizeNotesTool ==
    [name |-> "quantize_notes_in_clip", args_schema |-> QuantizeNotesInput,
     run_params |-> << <<"track_index", Required>>, <<"clip_index", Required>>, <<"grid_size", Num(<<"0", ".", "2", "5">>)>>, <<"strength", Num(<<"1", ".", "0">>)>>, <<"from_time", Null>>, <<"to_time", Null>>, <<"from_pitch", Null>>, <<"to_pitch", Null>> >>,
     method |-> quantize_notes_in_clip, call_args |-> << "track_index", "clip_index", "grid_size", "strength", "from_time", "to_time", "from_pitch", "to_pitch" >>]

AbletonGetScenesInfoTool ==
    [name |-> "get_scenes_info", args_schema |-> GetScenesInfoInput,
     run_params |-> <<>>,
     method |-> get_scenes_info, call_args |-> <<>>]

AbletonCreateSceneTool ==
    [name |-> "create_scene", args_schema |-> CreateSceneInput,
     run_params |-> << <<"index", Num(<<"-", "1">>)>> >>,
     method |-> create_scene, call_args |-> << "index" >>]

AbletonFireSceneTool ==
    [name |-> "fire_scene", args_schema |-> FireSceneInput,
     run_params |-> << <<"index", Required>> >>,
     method |-> fire_scene, call_args |-> << "index" >>]

AbletonImportAudioFileTool ==
    [name |-> "import_audio_file", args_schema |-> ImportAudioFileInput,
     run_params |-> << <<"uri", Required>>, <<"track_index", Num(<<"-", "1">>)>>, <<"clip_index", Num(<<"0">>)>>, <<"create_track_if_needed", Bool(TRUE)>> >>,
     method |-> import_audio_file, call_args |-> << "uri", "track_index", "clip_index", "create_track_if_needed" >>]

\* the list with the fire_clip adapter registered in the place of fire_scene
get_ableton_tools_fire_clip_twice ==
    <<AbletonSessionInfoTool,
      AbletonSetTempoTool,
      AbletonStartPlaybackTool,
      AbletonStopPlaybackTool,
      AbletonTrackInfoTool,
      AbletonCreateMidiTrackTool,
      AbletonSetTrackNameTool,
      AbletonCreateClipTool,
      AbletonSetClipNameTool,
      AbletonFireClipTool,
      AbletonStopClipTool,
      AbletonAddNotesTool,
      AbletonGetNotesFromClipTool,
      AbletonDeleteNotesFromClipTool,
      AbletonTransposeNotesTool,
      AbletonQuantizeNotesTool,
      AbletonGetDeviceParametersTool,
      AbletonSetDeviceParameterTool,
      AbletonBatchSetDeviceParametersTool,
      AbletonLoadInstrumentOrEffectTool,
      AbletonGetBrowserTreeTool,
      AbletonGetBrowserItemsAtPathTool,
      AbletonLoadDrumKitTool,
      AbletonGetScenesInfoTool,
      AbletonCreateSceneTool,
      AbletonFireClipTool,
      AbletonImportAudioFileTool>>

\* the list with the first adapter registered under a name that is no command
get_ableton_tools_misnamed ==
    <<[AbletonSessionInfoTool EXCEPT !.name = "get_session"],
      AbletonSetTempoTool,
      AbletonStartPlaybackTool,
      AbletonStopPlaybackTool,
      AbletonTrackInfoTool,
      AbletonCreateMidiTrackTool,
      AbletonSetTrackNameTool,
      AbletonCreateClipTool,
      AbletonSetClipNameTool,
      AbletonFireClipTool,
      AbletonStopClipTool,
      AbletonAddNotesTool,
      AbletonGetNotesFromClipTool,
      AbletonDeleteNotesFromClipTool,
      AbletonTransposeNotesTool,
      AbletonQuantizeNotesTool,
      AbletonGetDeviceParametersTool,
      AbletonSetDeviceParameterTool,
      AbletonBatchSetDeviceParametersTool,
      AbletonLoadInstrumentOrEffectTool,
      AbletonGetBrowserTreeTool,
      AbletonGetBrowserItemsAtPathTool,
      AbletonLoadDrumKitTool,
      AbletonGetScenesInfoTool,
      AbletonCreateSceneTool,
      AbletonFireSceneTool,
      AbletonImportAudioFileTool>>

get_ableton_tools ==
    <<AbletonSessionInfoTool,
      AbletonSetTempoTool,
      AbletonStartPlaybackTool,
      AbletonStopPlaybackTool,
      AbletonTrackInfoTool,
      AbletonCreateMidiTrackTool,
      AbletonSetTrackNameTool,
      AbletonCreateClipTool,
      AbletonSetClipNameTool,
      AbletonFireClipTool,
      AbletonStopClipTool,
      AbletonAddNotesTool,
      AbletonGetNotesFromClipTool,
      AbletonDeleteNotesFromClipTool,
      AbletonTransposeNotesTool,
      AbletonQuantizeNotesTool,
      AbletonGetDeviceParametersTool,
      AbletonSetDeviceParameterTool,
      AbletonBatchSetDeviceParametersTool,
      AbletonLoadInstrumentOrEffectTool,
      AbletonGetBrowserTreeTool,
      AbletonGetBrowserItemsAtPathTool,
      AbletonLoadDrumKitTool,
      AbletonGetScenesInfoTool,
      AbletonCreateSceneTool,
      AbletonFireSceneTool,
      AbletonImportAudioFileTool>>

list_all_tools ==
    << "get_session_info",
       "set_tempo",
       "start_playback",
       "stop_playback",
       "get_track_info",
       "create_midi_track",
       "create_audio_track",
       "set_track_name",
       "set_track_level",
       "set_track_pan",
       "create_clip",
       "set_clip_name",
       "fire_clip",
       "stop_clip",
       "set_clip_loop_parameters",
       "set_clip_follow_action",
       "add_notes_to_clip",
       "get_notes_from_clip",
       "batch_edit_notes_in_clip",
       "delete_notes_from_clip",
       "transpose_notes_in_clip",
       "quantize_notes_in_clip",
       "randomize_note_timing",
       "set_note_probability",
       "get_device_parameters",
       "set_device_parameter",
       "batch_set_device_parameters",
       "set_device_parameter_udp",
       "load_instrument_or_effect",
       "get_browser_tree",
       "get_browser_items_at_path",
       "load_drum_kit",
       "get_clip_envelope",
       "add_clip_envelope_point",
       "clear_clip_envelope",
       "get_scenes_info",
       "create_scene",
       "set_scene_name",
       "delete_scene",
       "fire_scene",
       "import_audio_file" >>

expected_categories ==
    << << "get_session_info", "set_tempo", "start_playback", "stop_playback" >>,
       << "get_track_info", "create_midi_track", "set_track_name" >>,
       << "create_clip", "set_clip_name", "fire_clip", "stop_clip" >>,
       << "add_notes_to_clip", "get_notes_from_clip", "delete_notes_from_clip", "transpose_notes_in_clip", "quantize_notes_in_clip" >>,
       << "get_device_parameters", "set_device_parameter", "batch_set_device_parameters", "load_instrument_or_effect" >>,
       << "get_browser_tree", "get_browser_items_at_path", "load_drum_kit" >>,
       << "get_scenes_info", "create_scene", "fire_scene" >>,
       << "import_audio_file" >> >>

\* ------------------------------------------------------------------------
\* Building a command
\* ------------------------------------------------------------------------
ParamIndex(params, name) == CHOOSE i \in 1..Len(params) : params[i][1] = name

\* the value a Python parameter holds after a call with positional arguments pos
Bind(params, pos, name) ==
    LET i == ParamIndex(params, name)
    IN  IF i <= Len(pos) THEN pos[i] ELSE params[i][2]

\* the command dictionary a client method builds from its parameters
Command(m, pos) ==
    Obj(<< <<"type", Str(m.type)>> >>
        \o (IF m.has_params
            THEN << <<"params",
                      Obj([k \in 1..Len(m.keys) |->
                             <<m.keys[k][1], Bind(m.params, pos, m.keys[k][2])>>])>> >>
            ELSE <<>>))

\* locals that take the declared default whenever the parameter has one
Local_default_wins(tool, kwargs, name) ==
    LET d == tool.run_params[ParamIndex(tool.run_params, name)][2]
    IN  IF d # Required THEN d ELSE kwargs[name]

\* the value of a local name of _run called with keyword arguments kwargs
Local(tool, kwargs, name) ==
    IF name \in DOMAIN kwargs
    THEN kwargs[name]
    ELSE tool.run_params[ParamIndex(tool.run_params, name)][2]

\* the positional arguments _run passes to the client method
CallArgs(tool, kwargs) ==
    [i \in 1..Len(tool.call_args) |-> Local(tool, kwargs, tool.call_args[i])]

\* the command a tool adapter's _run has the client build
ToolCommand(tool, kwargs) == Command(tool.method, CallArgs(tool, kwargs))

\* ------------------------------------------------------------------------
\* Inputs: one value per argument, by type and position, and every choice of
\* which optional arguments are given
\* ------------------------------------------------------------------------
Digit == <<"1", "2", "3", "4", "5", "6", "7", "8", "9">>
Letter == <<"a", "b", "c", "d", "e", "f", "g", "h", "i">>

Sample(type, i) ==
    CASE type = "int"        -> Num(<<Digit[i]>>)
      [] type = "float"      -> Num(<<"0", ".", Digit[i]>>)
      [] type = "str"        -> Str(Letter[i])
      [] type = "bool"       -> Bool(FALSE)
      [] type = "list_int"   -> Arr(<<Num(<<"0">>), Num(<<"1">>)>>)
      [] type = "list_float" -> Arr(<<Num(<<"0", ".", "3">>), Num(<<"0", ".", "7">>)>>)
      [] type = "list_dict"  -> Arr(<<Obj(<< <<"pitch", Num(<<"6", "0">>)>>,
                                             <<"velocity", Num(<<"1", "0", "0">>)>> >>)>>)
      [] type = "opt_float"  -> Num(<<Digit[i], ".", "5">>)
      [] type = "opt_int"    -> Num(<<"6", Digit[i]>>)

FieldIndex(schema, name) == CHOOSE i \in 1..Len(schema.fields) : schema.fields[i][1] = name

RequiredFields(schema) ==
    {schema.fields[i][1] : i \in {j \in 1..Len(schema.fields) : schema.fields[j][3] = Required}}

OptionalFields(schema) ==
    {schema.fields[i][1] : i \in {j \in 1..Len(schema.fields) : schema.fields[j][3] # Required}}

\* the keyword arguments a validated tool input can carry
KwargSets(schema) ==
    {[n \in RequiredFields(schema) \cup S |->
         Sample(schema.fields[FieldIndex(schema, n)][2], FieldIndex(schema, n))]
       : S \in SUBSET OptionalFields(schema)}

\* ------------------------------------------------------------------------
\* Sockets and the client
\* ------------------------------------------------------------------------
None == 0
RecvSize == 8192

EPIPE == "[Errno 32] Broken pipe"
ECONNRESET == "[Errno 104] Connection reset by peer"
EUTF8 == "'utf-8' codec can't decode byte 0xff: invalid start byte"
ETRUNC == "'utf-8' codec can't decode byte 0xc3: unexpected end of data"
ECONT == "'utf-8' codec can't decode byte 0xc3: invalid continuation byte"

\* str(e) of the UnicodeDecodeError: the first position that fails decides
Utf8Error(s) ==
    LET i == CHOOSE j \in BadUtf8(s) : \A k \in BadUtf8(s) : j <= k
    IN  CASE s[i][1] = "m" /\ i = Len(s) -> ETRUNC
          [] s[i][1] = "m" -> ECONT
          [] OTHER -> EUTF8
NotConnectedTcp == "Not connected to TCP server"
NotConnectedUdp == "Not connected to UDP server"

Returned(v) == [raised |-> "", msg |-> "", val |-> v]
Raised(cls, msg) == [raised |-> cls, msg |-> msg, val |-> Null]

ErrorDict(msg) == Obj(<< <<"status", Str("error")>>, <<"message", Str(msg)>> >>)

NoWrite == [sock |-> None, data |-> <<>>]

\* a socket object: n_connect, n_send, n_close count the calls made on it,
\* rx is what the peer has still to deliver on it
NewSocket(kind) ==
    [kind |-> kind, state |-> "open", n_connect |-> 0, n_send |-> 0,
     n_close |-> 0, rx |-> <<>>]

\* AbletonMCPClient.__init__
NewClient ==
    [sockets |-> <<>>, tcp_socket |-> None, udp_socket |-> None,
     response_data |-> <<>>, pc |-> "ready", ret |-> Returned(Null),
     wire |-> NoWrite, how |-> ""]

\* connect_tcp that tries the connect a second time when the first is refused
connect_tcp_retry(w, outcome) ==
    IF outcome = "socket_error"
    THEN [w EXCEPT !.ret = Returned(Bool(FALSE))]
    ELSE [w EXCEPT
            !.sockets = Append(@, [NewSocket("tcp") EXCEPT
                                      !.n_connect = IF outcome = "connected" THEN 1 ELSE 2,
                                      !.state = IF outcome = "connected"
                                                THEN "connected" ELSE "open"]),
            !.tcp_socket = Len(w.sockets) + 1,
            !.ret = Returned(Bool(outcome = "connected"))]

\* outcome: "connected", "refused" (connect raises) or "socket_error"
\* (socket.socket raises)
connect_tcp(w, outcome) ==
    IF outcome = "socket_error"
    THEN [w EXCEPT !.ret = Returned(Bool(FALSE))]
    ELSE [w EXCEPT
            !.sockets = Append(@, [NewSocket("tcp") EXCEPT
                                      !.n_connect = 1,
                                      !.state = IF outcome = "connected"
                                                THEN "connected" ELSE "open"]),
            !.tcp_socket = Len(w.sockets) + 1,
            !.ret = Returned(Bool(outcome = "connected"))]

\* outcome: "created" or "socket_error"
connect_udp(w, outcome) ==
    IF outcome = "socket_error"
    THEN [w EXCEPT !.ret = Returned(Bool(FALSE))]
    ELSE [w EXCEPT
            !.sockets = Append(@, NewSocket("udp")),
            !.udp_socket = Len(w.sockets) + 1,
            !.ret = Returned(Bool(TRUE))]

Close(socks, s) ==
    IF s = None THEN socks
    ELSE [socks EXCEPT ![s].state = "closed", ![s].n_close = @ + 1, ![s].rx = <<>>]

\* disconnect in which an exception of tcp_socket.close() is not caught
disconnect_close_error_escapes(w, tcp_close, udp_close) ==
    IF w.tcp_socket # None /\ tcp_close = "raises"
    THEN [w EXCEPT !.sockets = Close(@, w.tcp_socket),
                   !.ret = Raised("OSError", "Bad file descriptor"),
                   !.how = "close_error"]
    ELSE [w EXCEPT !.sockets = Close(Close(@, w.tcp_socket), w.udp_socket),
                   !.tcp_socket = None,
                   !.udp_socket = None,
                   !.ret = Returned(Null),
                   !.how = IF w.udp_socket # None /\ udp_close = "raises"
                           THEN "close_error" ELSE "closed"]

\* tcp_close, udp_close: "closed", or "raises" when the close() of that socket
\* raises; the bare except swallows it, and the socket object is closed
\* either way. how records whether a close raised
disconnect(w, tcp_close, udp_close) ==
    [w EXCEPT !.sockets = Close(Close(@, w.tcp_socket), w.udp_socket),
              !.tcp_socket = None,
              !.udp_socket = None,
              !.ret = Returned(Null),
              !.how = IF \/ w.tcp_socket # None /\ tcp_close = "raises"
                         \/ w.udp_socket # None /\ udp_close = "raises"
                      THEN "close_error" ELSE "closed"]

\* a return from _send_tcp_command: response_data is a local of the call;
\* how records the way out: "send_error", "recv_error", "closed",
\* "decode_error" or "decoded"
Return(w, v, how) ==
    [w EXCEPT !.ret = Returned(v), !.pc = "ready", !.response_data = <<>>, !.how = how]

\* _send_tcp_command up to its first recv. outcome: "sent" or "send_error";
\* reply is what the endpoint will deliver in answer
send_tcp_command(w, command, outcome, reply) ==
    IF w.tcp_socket = None
    THEN [w EXCEPT !.ret = Raised("ConnectionError", NotConnectedTcp), !.how = "raised"]
    ELSE LET s == w.tcp_socket IN
         IF w.sockets[s].state # "connected" \/ outcome = "send_error"
         THEN Return([w EXCEPT !.sockets[s].n_send = @ + 1], ErrorDict(EPIPE), "send_error")
         ELSE [w EXCEPT !.sockets[s].n_send = @ + 1,
                        !.sockets[s].rx = @ \o reply,
                        !.wire = [sock |-> s, data |-> json_dumps(command)],
                        !.response_data = <<>>,
                        !.pc = "recv",
                        !.how = ""]

\* what one recv(8192) can give: the next k bytes, b"" or an exception
RecvEvents(w) ==
    IF w.pc # "recv" THEN {}
    ELSE LET n == Len(w.sockets[w.tcp_socket].rx)
         IN  {[kind |-> "chunk", k |-> k] : k \in 1..(IF n < RecvSize THEN n ELSE RecvSize)}
             \cup {[kind |-> "closed", k |-> 0], [kind |-> "error", k |-> 0]}

\* a receive loop that gives up the connection when recv raises
recv_tcp_command_drops_socket(w, ev) ==
    LET s == w.tcp_socket
        rx == w.sockets[s].rx
    IN  CASE ev.kind = "error" ->
               Return([w EXCEPT !.sockets = Close(@, s), !.tcp_socket = None],
                      ErrorDict(ECONNRESET), "recv_error")
          [] ev.kind = "closed" -> Return([w EXCEPT !.sockets[s].rx = <<>>], Null, "closed")
          [] OTHER ->
               LET buf == w.response_data \o SubSeq(rx, 1, ev.k)
                   w1 == [w EXCEPT !.sockets[s].rx = SubSeq(rx, ev.k + 1, Len(rx)),
                                   !.response_data = buf]
                   r == json_loads(buf)
               IN  CASE r.kind = "ok" -> Return(w1, r.val, "decoded")
                     [] r.kind = "UnicodeDecodeError" ->
                          Return(w1, ErrorDict(Utf8Error(buf)), "decode_error")
                     [] OTHER -> w1

\* one turn of the receive loop of _send_tcp_command
recv_tcp_command(w, ev) ==
    LET s == w.tcp_socket
        rx == w.sockets[s].rx
    IN  CASE ev.kind = "error" -> Return(w, ErrorDict(ECONNRESET), "recv_error")
          [] ev.kind = "closed" -> Return([w EXCEPT !.sockets[s].rx = <<>>], Null, "closed")
          [] OTHER ->
               LET buf == w.response_data \o SubSeq(rx, 1, ev.k)
                   w1 == [w EXCEPT !.sockets[s].rx = SubSeq(rx, ev.k + 1, Len(rx)),
                                   !.response_data = buf]
                   r == json_loads(buf)
               IN  CASE r.kind = "ok" -> Return(w1, r.val, "decoded")
                     [] r.kind = "UnicodeDecodeError" ->
                          Return(w1, ErrorDict(Utf8Error(buf)), "decode_error")
                     [] OTHER -> w1

\* _send_udp_command that reports a missing socket as a failed send
send_udp_command_silent(w, command, outcome) ==
    IF w.udp_socket = None
    THEN [w EXCEPT !.ret = Returned(Bool(FALSE)), !.how = "send_error"]
    ELSE LET s == w.udp_socket IN
         IF outcome = "send_error"
         THEN [w EXCEPT !.sockets[s].n_send = @ + 1, !.ret = Returned(Bool(FALSE)),
                        !.how = "send_error"]
         ELSE [w EXCEPT !.sockets[s].n_send = @ + 1,
                        !.wire = [sock |-> s, data |-> json_dumps(command)],
                        !.ret = Returned(Bool(TRUE)),
                        !.how = "sent"]

\* _send_udp_command. outcome: "sent" or "send_error"
send_udp_command(w, command, outcome) ==
    IF w.udp_socket = None
    THEN [w EXCEPT !.ret = Raised("ConnectionError", NotConnectedUdp), !.how = "raised"]
    ELSE LET s == w.udp_socket IN
         IF outcome = "send_error"
         THEN [w EXCEPT !.sockets[s].n_send = @ + 1, !.ret = Returned(Bool(FALSE)),
                        !.how = "send_error"]
         ELSE [w EXCEPT !.sockets[s].n_send = @ + 1,
                        !.wire = [sock |-> s, data |-> json_dumps(command)],
                        !.ret = Returned(Bool(TRUE)),
                        !.how = "sent"]

\* ------------------------------------------------------------------------
\* The endpoint's answers
\* ------------------------------------------------------------------------
ReplySuccess ==
    json_dumps(Obj(<< <<"status", Str("success")>>,
                      <<"result", Obj(<< <<"index", Num(<<"1", "2">>)>> >>)>> >>))
ReplyError == json_dumps(ErrorDict("Unknown command"))
ReplyNumber == <<D("1"), D("2")>>
ReplyTwoDocuments == <<P("{"), P("}"), P("{"), P("}")>>
ReplyBadUtf8 == <<P("{"), X("ff"), P("}")>>
ReplyNotJson == << <<"t", "not json">> >>

ReplyTexts ==
    {ReplySuccess, ReplyError, ReplyNumber, ReplyTwoDocuments, ReplyBadUtf8, ReplyNotJson}

\* ------------------------------------------------------------------------
\* State
\* ------------------------------------------------------------------------
\* one client object at a time: a tool invocation creates its own client and
\* drops it when it returns
Clients == {1}

VARIABLES
    sockets,        \* client -> the sockets it created, in creation order
    tcp_socket,     \* client -> index of its TCP socket, or None
    udp_socket,     \* client -> index of its UDP socket, or None
    response_data,  \* client -> bytes accumulated by the running _send_tcp_command
    pc,             \* client -> "ready", or "recv" inside the receive loop
    ret,            \* client -> what its last method call returned or raised
    wire,           \* client -> the last document it wrote, and on which socket
    how,            \* client -> how its last command call ended
    run,            \* client -> the tool invocation that created it
    loaded,         \* the list the last get_ableton_tools() returned
    hist,           \* client -> the calls made on it directly (history)
    script          \* the calling module: its global client, the function it runs

vars ==
    <<sockets, tcp_socket, udp_socket, response_data, pc, ret, wire, how, run, loaded, hist,
      script>>

World(c) ==
    [sockets |-> sockets[c], tcp_socket |-> tcp_socket[c], udp_socket |-> udp_socket[c],
     response_data |-> response_data[c], pc |-> pc[c], ret |-> ret[c], wire |-> wire[c],
     how |-> how[c]]

Commit(c, w) ==
    /\ sockets' = [sockets EXCEPT ![c] = w.sockets]
    /\ tcp_socket' = [tcp_socket EXCEPT ![c] = w.tcp_socket]
    /\ udp_socket' = [udp_socket EXCEPT ![c] = w.udp_socket]
    /\ response_data' = [response_data EXCEPT ![c] = w.response_data]
    /\ pc' = [pc EXCEPT ![c] = w.pc]
    /\ ret' = [ret EXCEPT ![c] = w.ret]
    /\ wire' = [wire EXCEPT ![c] = w.wire]
    /\ how' = [how EXCEPT ![c] = w.how]

NoKwargs == [n \in {} |-> Null]
\* a tool invocation: the position in _run, the adapter (its index in the
\* loaded list) and the keyword arguments, the locals connected (what
\* connect_tcp returned) and returned (what the client method returned), the
\* string _run returned or the exception it raised, and, for reference, the
\* answer the endpoint chose
NoRun ==
    [pc |-> "idle", tool |-> 0, kwargs |-> NoKwargs, connected |-> FALSE,
     returned |-> Returned(Null), result |-> <<>>, raised |-> "", reply |-> <<>>]

\* the history of the direct calls on a client: how many were made, the
\* last one, what the last of connect_tcp / disconnect and of connect_udp /
\* disconnect was ("never", "true", "false" for what the connect returned,
\* "disconnected"), and whether a connect_udp has returned True since the
\* construction or the last disconnect; reply is the answer the endpoint
\* gives to the TCP command last called, and orderly says that since the
\* last connect_tcp every command was written, was answered by one JSON
\* object and met no transport error or close; method and args are the UDP
\* method last called and its arguments
NoHist ==
    [calls |-> 0, call |-> "", tcp |-> "never", udp |-> "never", udp_up |-> FALSE,
     reply |-> <<>>, orderly |-> TRUE, method |-> "", args |-> <<>>]

\* the module simple_tools: its global client (None, or the client object),
\* the quick-access function in progress or last called (an index into
\* quick_access, 0 for connect and disconnect) and its arguments, the local
\* result of create_track / create_clip, the documents the function has
\* sent, what it returned or raised and whether it printed 'Not connected';
\* calls counts the calls made, up is whether connect() has returned True
\* and disconnect() has not been called since, reply is the endpoint's
\* answer to the function's first command
NoScript ==
    [client |-> None, pc |-> "ready", call |-> "", fn |-> 0, args |-> NoKwargs,
     result |-> Returned(Null), sent |-> <<>>, ret |-> Returned(Null),
     printed |-> "", calls |-> 0, up |-> FALSE, reply |-> <<>>]

Init ==
    /\ sockets = [c \in Clients |-> NewClient.sockets]
    /\ tcp_socket = [c \in Clients |-> NewClient.tcp_socket]
    /\ udp_socket = [c \in Clients |-> NewClient.udp_socket]
    /\ response_data = [c \in Clients |-> NewClient.response_data]
    /\ pc = [c \in Clients |-> NewClient.pc]
    /\ ret = [c \in Clients |-> NewClient.ret]
    /\ wire = [c \in Clients |-> NewClient.wire]
    /\ how = [c \in Clients |-> NewClient.how]
    /\ run = [c \in Clients |-> NoRun]
    /\ loaded = <<>>
    /\ hist = [c \in Clients |-> NoHist]
    /\ script = NoScript

\* ------------------------------------------------------------------------
\* A tool adapter's _run
\* ------------------------------------------------------------------------
FailedToConnect ==
    << <<"t", "Error: Failed to connect to Ableton Live. Make sure Ableton Live is running and the MCP server is active.">> >>

\* f"Error: {str(e)}"
ErrorText(msg) == << <<"t", "Error: ">>, <<"t", msg>> >>

\* _run once the client method has returned or raised:
\* client.disconnect(); return json.dumps(result, indent=2), or the handler.
\* A close() that raises leaves the same client as one that does not, so one
\* outcome of the closes stands for both
RunOutcome(w) ==
    IF w.ret.raised # ""
    THEN [world |-> w, result |-> ErrorText(w.ret.msg)]
    ELSE [world |-> [disconnect(w, "closed", "closed") EXCEPT !.how = w.how],
          result |-> json_dumps_indent2(w.ret.val)]

LoadTools ==
    /\ loaded' = get_ableton_tools
    /\ UNCHANGED <<sockets, tcp_socket, udp_socket, response_data, pc, ret, wire, how, run,
                   hist, script>>

\* one client object kept by the module and used by every invocation
ClientOf_module_client(c) == 1

\* the client an invocation works on: the local of its own _run
ClientOf(c) == c

\* client = AbletonMCPClient(); client.connect_tcp()
ToolStart(c, i, kwargs, outcome) ==
    /\ run[c].pc = "idle"
    /\ LET w == connect_tcp(NewClient, outcome) IN
       /\ Commit(ClientOf(c), w)
       /\ run' = [run EXCEPT ![c] =
                    IF w.ret.val = Bool(TRUE)
                    THEN [NoRun EXCEPT !.pc = "connected", !.tool = i, !.kwargs = kwargs,
                                       !.connected = TRUE]
                    ELSE [NoRun EXCEPT !.pc = "done", !.tool = i, !.kwargs = kwargs,
                                       !.result = FailedToConnect]]
    /\ UNCHANGED <<loaded, hist, script>>

\* result = client.<method>(...): the command is built and written
ToolSend(c, outcome, reply) ==
    /\ run[c].pc = "connected"
    /\ LET w == send_tcp_command(World(ClientOf(c)), ToolCommand(loaded[run[c].tool], run[c].kwargs),
                                 outcome, reply)
           out == RunOutcome(w)
       IN  IF w.pc = "recv"
           THEN /\ Commit(ClientOf(c), w)
                /\ run' = [run EXCEPT ![c].pc = "command", ![c].reply = reply]
           ELSE /\ Commit(ClientOf(c), out.world)
                /\ run' = [run EXCEPT ![c].pc = "done", ![c].returned = w.ret,
                                      ![c].result = out.result]
    /\ UNCHANGED <<loaded, hist, script>>

\* one recv of the client method's receive loop, and the rest of _run when
\* the method returns
ToolRecv(c, ev) ==
    /\ run[c].pc = "command"
    /\ LET w == recv_tcp_command(World(ClientOf(c)), ev)
           out == RunOutcome(w)
       IN  IF w.pc = "recv"
           THEN /\ Commit(ClientOf(c), w)
                /\ UNCHANGED run
           ELSE /\ Commit(ClientOf(c), out.world)
                /\ run' = [run EXCEPT ![c].pc = "done", ![c].returned = w.ret,
                                      ![c].result = out.result]
    /\ UNCHANGED <<loaded, hist, script>>

\* the invocation is over: its client is dropped
ToolReset(c) ==
    /\ run[c].pc = "done"
    /\ Commit(ClientOf(c), NewClient)
    /\ run' = [run EXCEPT ![c] = NoRun]
    /\ UNCHANGED <<loaded, hist, script>>

Next ==
    \/ LoadTools
    \/ \E c \in Clients, i \in 1..Len(loaded) :
         \E kwargs \in KwargSets(loaded[i].args_schema),
            outcome \in {"connected", "refused", "socket_error"} :
              ToolStart(c, i, kwargs, outcome)
    \/ \E c \in Clients, outcome \in {"sent", "send_error"}, reply \in ReplyTexts :
         ToolSend(c, outcome, reply)
    \/ \E c \in Clients : \E ev \in RecvEvents(World(ClientOf(c))) : ToolRecv(c, ev)
    \/ \E c \in Clients : ToolReset(c)

Spec == Init /\ [][Next]_vars

\* ------------------------------------------------------------------------
\* Direct use of one AbletonMCPClient: any sequence of at most MaxCalls calls
\* of connect_tcp, connect_udp, disconnect and of the command methods
\* ------------------------------------------------------------------------
MaxCalls == 3

TcpMethods ==
    {ClientMethods[i] : i \in {j \in 1..Len(ClientMethods) : ClientMethods[j].transport = "tcp"}}

UdpMethods ==
    {ClientMethods[i] : i \in {j \in 1..Len(ClientMethods) : ClientMethods[j].transport = "udp"}}

\* the client holds a socket whose connect succeeded
Established(c) ==
    tcp_socket[c] # None /\ sockets[c][tcp_socket[c]].state = "connected"

\* the sockets the client references
Held(c) == {tcp_socket[c], udp_socket[c]} \ {None}

\* the methods called on an established connection, where each one differs
\* from the others only by the document it writes; without a connection
\* every method is called
SampleMethods == {get_session_info, set_tempo, set_device_parameter, batch_set_device_parameters}

CalledMethods(c) == IF Established(c) THEN SampleMethods ELSE TcpMethods

NumRequired(m) == Cardinality({i \in 1..Len(m.params) : m.params[i][2] = Required})

\* positional arguments of a call of method m: the required ones only, or all
MethodArgs(m) ==
    {[i \in 1..n |-> Num(<<Digit[i]>>)] : n \in {NumRequired(m), Len(m.params)}}

AllArgs(m) == [i \in 1..Len(m.params) |-> Num(<<Digit[i]>>)]

\* the answers the endpoint gives to a client used directly
\* {"\u00e9":1} with the character sent as its two UTF-8 bytes
ReplyNonAscii ==
    <<P("{"), Q(""), M("\\u00e9"), C("\\u00e9"), EndQuote, P(":"), D("1"), P("}")>>

ReplyEmptyObject == <<P("{"), P("}")>>

ClientReplies ==
    {ReplyNonAscii, ReplyEmptyObject, ReplyNumber, ReplyTwoDocuments, ReplyNotJson}

\* the client as a call finds it: nothing written or returned by this call yet
AtCall(c) == [World(c) EXCEPT !.wire = NoWrite, !.ret = Returned(Null), !.how = ""]

CanCall(c) == pc[c] = "ready" /\ hist[c].calls < MaxCalls

Called(c, name) ==
    [hist[c] EXCEPT !.calls = @ + 1, !.call = name, !.reply = <<>>,
                    !.method = "", !.args = <<>>]

\* the answer is one JSON object
IsObjectReply(reply) ==
    LET r == json_loads(reply) IN r.kind = "ok" /\ r.val.t = "obj"

ApiConnectTcp(c, outcome) ==
    /\ CanCall(c)
    /\ Commit(c, connect_tcp(AtCall(c), outcome))
    /\ hist' = [hist EXCEPT ![c] =
                  [Called(c, "connect_tcp") EXCEPT
                      !.tcp = IF outcome = "connected" THEN "true" ELSE "false",
                      !.orderly = TRUE]]
    /\ UNCHANGED <<run, loaded, script>>

ApiConnectUdp(c, outcome) ==
    /\ CanCall(c)
    /\ Commit(c, connect_udp(AtCall(c), outcome))
    /\ hist' = [hist EXCEPT ![c] =
                  [Called(c, "connect_udp") EXCEPT
                      !.udp = IF outcome = "created" THEN "true" ELSE "false",
                      !.udp_up = @ \/ outcome = "created"]]
    /\ UNCHANGED <<run, loaded, script>>

ApiDisconnect(c, tcp_close, udp_close) ==
    /\ CanCall(c)
    /\ Commit(c, disconnect(AtCall(c), tcp_close, udp_close))
    /\ hist' = [hist EXCEPT ![c] =
                  [Called(c, "disconnect") EXCEPT
                      !.tcp = "disconnected", !.udp = "disconnected", !.udp_up = FALSE]]
    /\ UNCHANGED <<run, loaded, script>>

\* a TCP command method up to its first recv
ApiTcpCommand(c, m, pos, outcome, reply) ==
    /\ CanCall(c)
    /\ Commit(c, send_tcp_command(AtCall(c), Command(m, pos), outcome, reply))
    /\ hist' = [hist EXCEPT ![c] =
                  [Called(c, "tcp_command") EXCEPT
                      !.reply = reply,
                      !.orderly = @ /\ outcome = "sent" /\ IsObjectReply(reply)]]
    /\ UNCHANGED <<run, loaded, script>>

\* one recv of the running TCP command method
ApiRecv(c, ev) ==
    /\ run[c].pc = "idle"
    /\ pc[c] = "recv"
    /\ Commit(c, recv_tcp_command(World(c), ev))
    /\ hist' = [hist EXCEPT ![c].orderly = @ /\ ev.kind = "chunk"]
    /\ UNCHANGED <<run, loaded, script>>

ApiUdpCommand(c, m, pos, outcome) ==
    /\ CanCall(c)
    /\ Commit(c, send_udp_command(AtCall(c), Command(m, pos), outcome))
    /\ hist' = [hist EXCEPT ![c] =
                  [Called(c, "udp_command") EXCEPT !.method = m.name, !.args = pos]]
    /\ UNCHANGED <<run, loaded, script>>

\* no method closes a socket whose reference connect_tcp or connect_udp has
\* overwritten: the interpreter releases it when it collects the object, at
\* once or at any later time, and no close() is called on it
Finalize(c, s) ==
    /\ s \notin Held(c)
    /\ sockets[c][s].state # "closed"
    /\ sockets' = [sockets EXCEPT ![c][s].state = "closed", ![c][s].rx = <<>>]
    /\ UNCHANGED <<tcp_socket, udp_socket, response_data, pc, ret, wire, how, run, loaded,
                   hist, script>>

NextClient ==
    \/ \E c \in Clients, outcome \in {"connected", "refused", "socket_error"} :
         ApiConnectTcp(c, outcome)
    \/ \E c \in Clients, outcome \in {"created", "socket_error"} : ApiConnectUdp(c, outcome)
    \/ \E c \in Clients, tcp_close \in {"closed", "raises"}, udp_close \in {"closed", "raises"} :
         ApiDisconnect(c, tcp_close, udp_close)
    \/ \E c \in Clients, reply \in ClientReplies \cup {<<>>} : \E m \in CalledMethods(c) :
         ApiTcpCommand(c, m, AllArgs(m), IF reply = <<>> THEN "send_error" ELSE "sent", reply)
    \/ \E c \in Clients : \E ev \in RecvEvents(World(c)) : ApiRecv(c, ev)
    \/ \E c \in Clients : \E s \in 1..Len(sockets[c]) : Finalize(c, s)
    \/ \E c \in Clients, m \in UdpMethods :
         \E pos \in MethodArgs(m), outcome \in {"sent", "send_error"} :
            ApiUdpCommand(c, m, pos, outcome)

SpecClient == Init /\ [][NextClient]_vars

\* ------------------------------------------------------------------------
\* Properties of the tool adapters
\* ------------------------------------------------------------------------
RECURSIVE TotalConnects(_)
TotalConnects(socks) ==
    IF socks = <<>> THEN 0 ELSE Head(socks).n_connect + TotalConnects(Tail(socks))

RECURSIVE TotalSends(_)
TotalSends(socks) ==
    IF socks = <<>> THEN 0 ELSE Head(socks).n_send + TotalSends(Tail(socks))

Finished(c) == run[c].pc = "done"

\* text is the JSON text of an object
IsObjectText(text) ==
    LET v == json_loads(text) IN v.kind = "ok" /\ v.val.t = "obj"

\* the value of key in a decoded object, Null when the key is absent
Get(obj, key) ==
    IF \E k \in 1..Len(obj.o) : obj.o[k][1] = key
    THEN obj.o[CHOOSE k \in 1..Len(obj.o) : obj.o[k][1] = key][2]
    ELSE Null

IsErrorObjectText(text) ==
    IsObjectText(text) /\ Get(json_loads(text).val, "status") = Str("error")

IsErrorText(text) == Len(text) = 2 /\ text[1] = <<"t", "Error: ">>

\* C1: one invocation of _run makes at most one TCP connect attempt; when
\* the attempt succeeds it sends exactly one command on that connection and
\* then disconnects; neither the connect nor the command is tried again,
\* whatever the endpoint replies.
C1_OneConnectOneCommand ==
    \A c \in Clients :
        /\ Len(sockets[c]) <= 1
        /\ TotalConnects(sockets[c]) <= 1
        /\ TotalSends(sockets[c]) <= 1
        /\ run[c].pc \in {"connected", "command"} =>
             /\ run[c].connected
             /\ tcp_socket[c] = 1
             /\ sockets[c][1].state = "connected"
             /\ sockets[c][1].n_send = (IF run[c].pc = "command" THEN 1 ELSE 0)
        /\ Finished(c) /\ run[c].connected =>
             /\ sockets[c][1].n_connect = 1
             /\ sockets[c][1].n_send = 1
             /\ sockets[c][1].n_close = 1
             /\ tcp_socket[c] = None
        /\ Finished(c) /\ ~run[c].connected => TotalSends(sockets[c]) = 0

\* an invocation that connected, got an error reply from the endpoint and
\* returned
C1_Witness ==
    \E c \in Clients :
        /\ Finished(c)
        /\ run[c].connected
        /\ run[c].returned.val = ErrorDict("Unknown command")
        /\ sockets[c][1].n_send = 1

\* C2: when _run returns, in every outcome, every socket the invocation
\* created has been closed.
C2_NoSocketLeftOpen ==
    \A c \in Clients :
        Finished(c) =>
            \A s \in 1..Len(sockets[c]) : sockets[c][s].state = "closed"

\* C3: _run never raises, and every failure is reported as the fixed
\* connect message, as "Error: <exception text>" or as the JSON text of an
\* error object.
C3_FailuresReportedAsErrors ==
    \A c \in Clients :
        Finished(c) =>
            /\ run[c].raised = ""
            /\ how[c] # "decoded" =>
                 \/ run[c].result = FailedToConnect
                 \/ IsErrorText(run[c].result)
                 \/ IsErrorObjectText(run[c].result)

\* C4: on a successful exchange (the endpoint answered with a JSON object
\* and the client method returned a decoded reply) the string _run returns
\* decodes to exactly the document the endpoint answered with.
C4_ReplyPassedThrough ==
    \A c \in Clients :
        Finished(c) /\ how[c] = "decoded" /\ IsObjectText(run[c].reply) =>
            json_loads(run[c].result) = json_loads(run[c].reply)

\* a success reply with a nested result, received in several chunks or one
C4_Witness ==
    \E c \in Clients :
        /\ Finished(c)
        /\ how[c] = "decoded"
        /\ run[c].reply = ReplySuccess
        /\ IsObjectText(run[c].result)
        /\ Get(Get(json_loads(run[c].result).val, "result"), "index") = Num(<<"1", "2">>)

\* the defaults stated for the schemas, by tool and argument
StatedDefault(tool_name, field) ==
    CASE field = "index" -> Num(<<"-", "1">>)
      [] field = "length" -> Num(<<"4", ".", "0">>)
      [] field = "category_type" -> Str("all")
      [] field = "grid_size" -> Num(<<"0", ".", "2", "5">>)
      [] field = "strength" -> Num(<<"1", ".", "0">>)
      [] tool_name = "import_audio_file" /\ field = "track_index" -> Num(<<"-", "1">>)
      [] tool_name = "import_audio_file" /\ field = "clip_index" -> Num(<<"0">>)
      [] field = "create_track_if_needed" -> Bool(TRUE)
      [] field \in {"from_time", "to_time", "from_pitch", "to_pitch"} -> Null
      [] OTHER -> Required

\* the document stated for a tool called with kwargs
ExpectedCommand(tool, kwargs) ==
    LET F == tool.args_schema.fields IN
    Obj(<< <<"type", Str(tool.name)>> >>
        \o (IF F = <<>> THEN <<>>
            ELSE << <<"params",
                      Obj([i \in 1..Len(F) |->
                             <<F[i][1],
                               IF F[i][1] \in DOMAIN kwargs
                               THEN kwargs[F[i][1]]
                               ELSE StatedDefault(tool.name, F[i][1])>>])>> >>))

Keys(obj) == {obj.o[k][1] : k \in 1..Len(obj.o)}

\* equality of two documents as dictionaries: the order of keys is ignored
\* at the top level and inside "params"
SameDocument(a, b) ==
    /\ a.t = "obj" /\ b.t = "obj"
    /\ Len(a.o) = Cardinality(Keys(a)) /\ Len(b.o) = Cardinality(Keys(b))
    /\ Keys(a) = Keys(b)
    /\ Get(a, "type") = Get(b, "type")
    /\ "params" \in Keys(a) =>
         LET pa == Get(a, "params")
             pb == Get(b, "params")
         IN  /\ pa.t = "obj" /\ pb.t = "obj"
             /\ Len(pa.o) = Cardinality(Keys(pa)) /\ Len(pb.o) = Cardinality(Keys(pb))
             /\ Keys(pa) = Keys(pb)
             /\ \A key \in Keys(pa) : Get(pa, key) = Get(pb, key)

\* C5: the command document a tool writes has "type" equal to the tool's
\* name and "params" equal to the arguments it was called with, omitted
\* arguments replaced by the listed defaults and unset range bounds sent as
\* null; a tool without arguments writes a document with no "params" key.
C5_CommandDocument ==
    \A c \in Clients :
        run[c].pc \in {"command", "done"} /\ wire[c].sock # None =>
            LET doc == json_loads(wire[c].data) IN
            /\ doc.kind = "ok"
            /\ SameDocument(doc.val, ExpectedCommand(loaded[run[c].tool], run[c].kwargs))

\* quantize_notes_in_clip called with its two required arguments and to_time
\* only: four defaults and three nulls are filled in
C5_Witness ==
    \E c \in Clients :
        /\ run[c].pc = "command"
        /\ loaded[run[c].tool].name = "quantize_notes_in_clip"
        /\ DOMAIN run[c].kwargs = {"track_index", "clip_index", "to_time"}
        /\ wire[c].sock = tcp_socket[c]
        /\ Get(Get(json_loads(wire[c].data).val, "params"), "grid_size")
             = Num(<<"0", ".", "2", "5">>)

MentionsConnection(msg) == msg \in {Str(NotConnectedTcp), Str(ECONNRESET)}

\* C6: the string a tool returns parses as a JSON object in every outcome;
\* when the endpoint is not reachable it is an object with status "error"
\* whose message mentions the connection.
C6_ResultIsJsonObject ==
    \A c \in Clients :
        Finished(c) =>
            /\ IsObjectText(run[c].result)
            /\ ~run[c].connected =>
                 /\ IsErrorObjectText(run[c].result)
                 /\ MentionsConnection(Get(json_loads(run[c].result).val, "message"))

ToolNames(tools) == {tools[i].name : i \in 1..Len(tools)}

ExpectedNames ==
    UNION {{expected_categories[i][j] : j \in 1..Len(expected_categories[i])}
             : i \in 1..Len(expected_categories)}

\* C7: get_ableton_tools() returns the same 27 tools on every call, with
\* pairwise distinct names, with every name of the test's eight categories
\* present, and each with an args_schema.
C7_ToolList ==
    /\ [](loaded # <<>> =>
            /\ Len(loaded) = 27
            /\ Cardinality(ToolNames(loaded)) = Len(loaded)
            /\ Len(expected_categories) = 8
            /\ ExpectedNames \subseteq ToolNames(loaded)
            /\ \A i \in 1..Len(loaded) : "fields" \in DOMAIN loaded[i].args_schema)
    /\ [][loaded # <<>> => loaded' = loaded]_vars

C7_Witness ==
    /\ loaded # <<>>
    /\ \E c \in Clients : Finished(c) /\ loaded[run[c].tool].name = "import_audio_file"

MethodNames == {ClientMethods[i].name : i \in 1..Len(ClientMethods)}

ListedNames == {list_all_tools[i] : i \in 1..Len(list_all_tools)}

\* C8 as stated: each command the client can send is exposed as a tool
\* adapter of the same name.
C8_EveryCommandExposed ==
    loaded # <<>> =>
        /\ MethodNames \subseteq ToolNames(loaded)
        /\ ListedNames \subseteq ToolNames(loaded)

NotExposed ==
    {"create_audio_track", "set_track_level", "set_track_pan",
     "set_clip_loop_parameters", "set_clip_follow_action",
     "batch_edit_notes_in_clip", "randomize_note_timing", "set_note_probability",
     "set_device_parameter_udp", "batch_set_device_parameters_udp",
     "get_clip_envelope", "add_clip_envelope_point", "clear_clip_envelope",
     "set_scene_name", "delete_scene"}

\* C8 amended: each tool adapter has the name of a TCP command method of the
\* client and calls that method, whose command type is the tool's name; the
\* command methods without an adapter are the fifteen of NotExposed.
C8_EveryToolIsACommand ==
    loaded # <<>> =>
        /\ \A j \in 1..Len(loaded) :
             /\ loaded[j].name \in MethodNames \cap ListedNames
             /\ loaded[j].method.name = loaded[j].name
             /\ loaded[j].method.type = loaded[j].name
             /\ loaded[j].method.transport = "tcp"
             /\ \E i \in 1..Len(ClientMethods) : ClientMethods[i] = loaded[j].method
        /\ MethodNames \ ToolNames(loaded) = NotExposed

C8_Witness ==
    /\ loaded # <<>>
    /\ "create_audio_track" \in MethodNames \ ToolNames(loaded)
    /\ "set_track_name" \in ToolNames(loaded)

\* ------------------------------------------------------------------------
\* Properties of the client used directly
\* ------------------------------------------------------------------------
LastCall(c, name) == hist[c].call = name /\ pc[c] = "ready"

\* the step is a call of the named kind on client c
IsCall(c, name) == hist'[c].calls = hist[c].calls + 1 /\ hist'[c].call = name

\* C9 as stated: a UDP command raises ConnectionError only when connect_udp
\* was never called or disconnect was called since.
C9_RaisesOnlyWithoutConnectUdp ==
    \A c \in Clients :
        LastCall(c, "udp_command") /\ ret[c].raised = "ConnectionError" =>
            hist[c].udp \in {"never", "disconnected"}

\* C9 amended: a UDP command makes one send of one whole command document on
\* the UDP socket and returns at once, without a receive: True when the send
\* completed, False when it raised; it raises ConnectionError, sending
\* nothing, exactly when no connect_udp has returned True since the client
\* was constructed or last disconnected.
C9_UdpFireAndForget ==
    /\ [](\A c \in Clients :
            LastCall(c, "udp_command") =>
                /\ (ret[c].raised # "") = ~hist[c].udp_up
                /\ ret[c].raised # "" =>
                     /\ ret[c] = Raised("ConnectionError", NotConnectedUdp)
                     /\ wire[c] = NoWrite
                /\ ret[c].raised = "" =>
                     /\ ret[c].val \in {Bool(TRUE), Bool(FALSE)}
                     /\ (ret[c].val = Bool(TRUE)) = (how[c] = "sent")
                     /\ ret[c].val = Bool(FALSE) => wire[c] = NoWrite
                     /\ ret[c].val = Bool(TRUE) =>
                          /\ wire[c].sock = udp_socket[c]
                          /\ sockets[c][wire[c].sock].kind = "udp"
                          /\ IsObjectText(wire[c].data))
    /\ [][\A c \in Clients :
            IsCall(c, "udp_command") =>
                /\ pc'[c] = "ready"
                /\ TotalSends(sockets'[c])
                     = TotalSends(sockets[c]) + (IF hist[c].udp_up THEN 1 ELSE 0)
                /\ Len(sockets'[c]) = Len(sockets[c])
                /\ \A s \in 1..Len(sockets[c]) :
                     /\ sockets'[c][s].rx = sockets[c][s].rx
                     /\ sockets'[c][s].state = sockets[c][s].state
                /\ response_data'[c] = response_data[c]
                /\ tcp_socket'[c] = tcp_socket[c]
                /\ udp_socket'[c] = udp_socket[c]]_vars

\* a datagram was sent while a TCP connection was up as well
C9_Witness ==
    \E c \in Clients :
        /\ LastCall(c, "udp_command")
        /\ ret[c].val = Bool(TRUE)
        /\ tcp_socket[c] # None
        /\ sockets[c][udp_socket[c]].n_send = 1
        /\ Get(json_loads(wire[c].data).val, "type") = Str("batch_set_device_parameters")

\* C10: whenever the client has no established TCP connection (before any
\* connect_tcp, after a connect_tcp that returned False, after disconnect),
\* every TCP command method raises ConnectionError('Not connected to TCP
\* server') and writes nothing to any socket.
C10_NotConnectedRaises ==
    \A c \in Clients :
        LastCall(c, "tcp_command") /\ ~Established(c) =>
            /\ ret[c] = Raised("ConnectionError", NotConnectedTcp)
            /\ wire[c] = NoWrite

\* C11: on a connected client _send_tcp_command always returns a dictionary,
\* the decoded reply of the endpoint or {'status': 'error', 'message': text},
\* whatever the endpoint does, closing before a complete document included.
C11_ReturnsReplyOrErrorDict ==
    \A c \in Clients :
        LastCall(c, "tcp_command") /\ Established(c) =>
            /\ ret[c].raised = ""
            /\ \/ how[c] = "decoded"
               \/ /\ ret[c].val.t = "obj"
                  /\ Get(ret[c].val, "status") = Str("error")
                  /\ Keys(ret[c].val) = {"status", "message"}

\* ------------------------------------------------------------------------
\* The module simple_tools: a global client and quick-access functions
\* ------------------------------------------------------------------------
MaxScriptCalls == 3

\* the quick-access functions: their parameters, the client method they
\* call with which of their parameters, and the method create_track and
\* create_clip call afterwards
quick_access ==
    << [name |-> "get_session", run_params |-> <<>>,
        method |-> get_session_info, call_args |-> <<>>, then |-> ""],
       [name |-> "set_tempo", run_params |-> << <<"bpm", Required>> >>,
        method |-> set_tempo, call_args |-> <<"bpm">>, then |-> ""],
       [name |-> "play", run_params |-> <<>>,
        method |-> start_playback, call_args |-> <<>>, then |-> ""],
       [name |-> "stop", run_params |-> <<>>,
        method |-> stop_playback, call_args |-> <<>>, then |-> ""],
       [name |-> "get_track", run_params |-> << <<"track_index", Required>> >>,
        method |-> get_track_info, call_args |-> <<"track_index">>, then |-> ""],
       [name |-> "create_track", run_params |-> << <<"name", Null>> >>,
        method |-> create_midi_track, call_args |-> <<>>, then |-> "set_track_name"],
       [name |-> "create_clip",
        run_params |-> << <<"track_index", Required>>, <<"clip_index", Num(<<"0">>)>>,
                          <<"length", Num(<<"4", ".", "0">>)>>, <<"name", Null>> >>,
        method |-> create_clip, call_args |-> <<"track_index", "clip_index", "length">>,
        then |-> "set_clip_name"],
       [name |-> "add_notes",
        run_params |-> << <<"track_index", Required>>, <<"clip_index", Required>>,
                          <<"notes", Required>> >>,
        method |-> add_notes_to_clip, call_args |-> <<"track_index", "clip_index", "notes">>,
        then |-> ""],
       [name |-> "fire_clip",
        run_params |-> << <<"track_index", Required>>, <<"clip_index", Required>> >>,
        method |-> fire_clip, call_args |-> <<"track_index", "clip_index">>, then |-> ""],
       [name |-> "stop_clip",
        run_params |-> << <<"track_index", Required>>, <<"clip_index", Required>> >>,
        method |-> stop_clip, call_args |-> <<"track_index", "clip_index">>, then |-> ""],
       [name |-> "get_device_params",
        run_params |-> << <<"track_index", Required>>, <<"device_index", Required>> >>,
        method |-> get_device_parameters, call_args |-> <<"track_index", "device_index">>,
        then |-> ""],
       [name |-> "set_param",
        run_params |-> << <<"track_index", Required>>, <<"device_index", Required>>,
                          <<"param_index", Required>>, <<"value", Required>> >>,
        method |-> set_device_parameter,
        call_args |-> <<"track_index", "device_index", "param_index", "value">>, then |-> ""],
       [name |-> "set_param_fast",
        run_params |-> << <<"track_index", Required>>, <<"device_index", Required>>,
                          <<"param_index", Required>>, <<"value", Required>> >>,
        method |-> set_device_parameter_udp,
        call_args |-> <<"track_index", "device_index", "param_index", "value">>, then |-> ""],
       [name |-> "get_browser", run_params |-> << <<"category", Str("all")>> >>,
        method |-> get_browser_tree, call_args |-> <<"category">>, then |-> ""],
       [name |-> "load_instrument",
        run_params |-> << <<"track_index", Required>>, <<"uri", Required>> >>,
        method |-> load_instrument_or_effect, call_args |-> <<"track_index", "uri">>,
        then |-> ""] >>

ParamNames(f) == {f.run_params[i][1] : i \in 1..Len(f.run_params)}

RequiredParams(f) ==
    {f.run_params[i][1] : i \in {j \in 1..Len(f.run_params) : f.run_params[j][2] = Required}}

\* the arguments of a call of a quick-access function: the required ones and
\* any of the optional ones; a name given is the empty string or "a"
QuickArgs(f) ==
    UNION {{[n \in RequiredParams(f) \cup S |->
               IF n = "name" THEN nm ELSE Num(<<Digit[ParamIndex(f.run_params, n)]>>)]
              : nm \in {Str(""), Str("a")}}
             : S \in SUBSET (ParamNames(f) \ RequiredParams(f))}

NotConnected == "Not connected. Call connect() first."

\* Python truth of a name argument
Truthy(v) == v \notin {Null, Str(""), Bool(FALSE)}

HasKey(obj, key) == \E k \in 1..Len(obj.o) : obj.o[k][1] = key

\* the answers the endpoint gives to the quick-access functions; each
\* arrives in one piece
ReplySuccessOnly == json_dumps(Obj(<< <<"status", Str("success")>> >>))

ScriptReplies == {ReplySuccess, ReplySuccessOnly, ReplyError}

WholeEvents(w) ==
    IF w.pc # "recv" THEN {}
    ELSE LET n == Len(w.sockets[w.tcp_socket].rx)
         IN  {[kind |-> "chunk", k |-> n] : k \in (IF n > 0 THEN {n} ELSE {})}
             \cup {[kind |-> "closed", k |-> 0], [kind |-> "error", k |-> 0]}

\* client = AbletonMCPClient(): a new object; the sockets of an earlier one
\* stay what they are
FreshClient(w) == [NewClient EXCEPT !.sockets = w.sockets]

\* simple_tools.connect()
simple_connect(w, tcp_outcome, udp_outcome) ==
    LET w1 == connect_tcp(FreshClient(w), tcp_outcome)
    IN  IF w1.ret.val = Bool(TRUE)
        THEN [connect_udp(w1, udp_outcome) EXCEPT !.ret = Returned(Bool(TRUE))]
        ELSE w1

CanRun == script.pc = "ready" /\ script.calls < MaxScriptCalls

Started(call, i, kwargs) ==
    [NoScript EXCEPT !.client = script.client, !.up = script.up,
                     !.calls = script.calls + 1,
                     !.call = call, !.fn = i, !.args = kwargs]

\* the documents a function has sent, after a send that left w
Sent(s, w) == IF w.wire.sock # None THEN Append(s.sent, w.wire.data) ELSE s.sent

\* create_track / create_clip that rename whenever a name was given, whether
\* the creation succeeded or not
AfterMethod_renames_whatever_status(s, w) ==
    LET f == quick_access[s.fn]
        v == w.ret.val
        name == Local(f, s.args, "name")
        Ends(r) == [s EXCEPT !.pc = "ready", !.ret = r]
    IN  CASE s.pc = "second" ->
               Ends(IF w.ret.raised # "" THEN w.ret ELSE s.result)
          [] w.ret.raised # "" \/ f.then = "" -> Ends(w.ret)
          [] v.t # "obj" ->
               Ends(Raised("AttributeError", "object has no attribute 'get'"))
          [] ~Truthy(name) -> Ends(w.ret)
          [] f.then = "set_track_name" /\ ~HasKey(v, "result") ->
               Ends(Raised("KeyError", "'result'"))
          [] f.then = "set_track_name" /\ Get(v, "result").t # "obj" ->
               Ends(Raised("TypeError", "object is not subscriptable"))
          [] f.then = "set_track_name" /\ ~HasKey(Get(v, "result"), "index") ->
               Ends(Raised("KeyError", "'index'"))
          [] OTHER -> [s EXCEPT !.pc = "then", !.result = w.ret]

\* a quick-access function once its client method has returned or raised:
\* the first command of create_track / create_clip is followed by a rename
\* when it succeeded and a name was given
AfterMethod(s, w) ==
    LET f == quick_access[s.fn]
        v == w.ret.val
        name == Local(f, s.args, "name")
        Ends(r) == [s EXCEPT !.pc = "ready", !.ret = r]
    IN  CASE s.pc = "second" ->
               Ends(IF w.ret.raised # "" THEN w.ret ELSE s.result)
          [] w.ret.raised # "" \/ f.then = "" -> Ends(w.ret)
          [] v.t # "obj" ->
               Ends(Raised("AttributeError", "object has no attribute 'get'"))
          [] ~(Get(v, "status") = Str("success") /\ Truthy(name)) -> Ends(w.ret)
          [] f.then = "set_track_name" /\ ~HasKey(v, "result") ->
               Ends(Raised("KeyError", "'result'"))
          [] f.then = "set_track_name" /\ Get(v, "result").t # "obj" ->
               Ends(Raised("TypeError", "object is not subscriptable"))
          [] f.then = "set_track_name" /\ ~HasKey(Get(v, "result"), "index") ->
               Ends(Raised("KeyError", "'index'"))
          [] OTHER -> [s EXCEPT !.pc = "then", !.result = w.ret]

\* the rename command of create_track / create_clip
ThenCommand(s) ==
    LET f == quick_access[s.fn]
        name == Local(f, s.args, "name")
    IN  IF f.then = "set_track_name"
        THEN Command(set_track_name,
                     <<Get(Get(s.result.val, "result"), "index"), name>>)
        ELSE Command(set_clip_name,
                     <<Local(f, s.args, "track_index"), Local(f, s.args, "clip_index"), name>>)

\* the script's state after a send that left the client as w
AfterSend(s, w, loop) ==
    LET s1 == [s EXCEPT !.sent = Sent(s, w)]
    IN  IF w.pc = "recv" THEN [s1 EXCEPT !.pc = loop] ELSE AfterMethod([s1 EXCEPT !.pc = loop], w)

SimpleConnect(c, tcp_outcome, udp_outcome) ==
    /\ CanRun
    /\ LET w == simple_connect(World(c), tcp_outcome, udp_outcome) IN
       /\ Commit(c, w)
       /\ script' = [Started("connect", 0, NoKwargs) EXCEPT
                        !.client = c, !.ret = w.ret, !.up = @ \/ w.ret.val = Bool(TRUE)]
    /\ UNCHANGED <<run, loaded, hist>>

\* simple_tools.disconnect; as in _run, the outcome of the closes does not
\* show in the client it leaves
SimpleDisconnect(c) ==
    /\ CanRun
    /\ Commit(c, IF script.client = None THEN World(c)
                 ELSE disconnect(World(c), "closed", "closed"))
    /\ script' = [Started("disconnect", 0, NoKwargs) EXCEPT !.client = None, !.up = FALSE]
    /\ UNCHANGED <<run, loaded, hist>>

\* a quick-access function up to the first recv of its client method; reply
\* <<>> stands for a send that raises
SimpleCall(c, i, kwargs, reply) ==
    /\ CanRun
    /\ LET f == quick_access[i]
           s == [Started("quick", i, kwargs) EXCEPT !.reply = reply]
           w0 == [World(c) EXCEPT !.wire = NoWrite, !.ret = Returned(Null), !.how = ""]
           outcome == IF reply = <<>> THEN "send_error" ELSE "sent"
           w == IF f.method.transport = "udp"
                THEN send_udp_command(w0, Command(f.method, CallArgs(f, kwargs)), outcome)
                ELSE send_tcp_command(w0, Command(f.method, CallArgs(f, kwargs)),
                                      outcome, reply)
       IN  IF script.client = None
           THEN /\ script' = [s EXCEPT !.printed = NotConnected]
                /\ UNCHANGED <<sockets, tcp_socket, udp_socket, response_data, pc, ret,
                               wire, how>>
           ELSE /\ Commit(c, w)
                /\ script' = AfterSend(s, w, "first")
    /\ UNCHANGED <<run, loaded, hist>>

\* the rename of create_track / create_clip up to its first recv
SimpleThen(c, reply) ==
    /\ script.pc = "then"
    /\ LET w0 == [World(c) EXCEPT !.wire = NoWrite, !.ret = Returned(Null), !.how = ""]
           w == send_tcp_command(w0, ThenCommand(script),
                                 IF reply = <<>> THEN "send_error" ELSE "sent", reply)
       IN  /\ Commit(c, w)
           /\ script' = AfterSend(script, w, "second")
    /\ UNCHANGED <<run, loaded, hist>>

\* one recv of the client method a quick-access function is in
SimpleRecv(c, ev) ==
    /\ script.pc \in {"first", "second"}
    /\ LET w == recv_tcp_command(World(c), ev) IN
       /\ Commit(c, w)
       /\ script' = IF w.pc = "recv" THEN script ELSE AfterMethod(script, w)
    /\ UNCHANGED <<run, loaded, hist>>

NextSimple ==
    \/ \E c \in Clients, tcp_outcome \in {"connected", "refused", "socket_error"},
          udp_outcome \in {"created", "socket_error"} :
         SimpleConnect(c, tcp_outcome, udp_outcome)
    \/ \E c \in Clients : SimpleDisconnect(c)
    \/ \E c \in Clients, i \in 1..Len(quick_access) :
         \E kwargs \in QuickArgs(quick_access[i]), reply \in ScriptReplies \cup {<<>>} :
            SimpleCall(c, i, kwargs, reply)
    \/ \E c \in Clients, reply \in ScriptReplies \cup {<<>>} : SimpleThen(c, reply)
    \/ \E c \in Clients : \E ev \in WholeEvents(World(c)) : SimpleRecv(c, ev)

SpecSimple == Init /\ [][NextSimple]_vars

\* ------------------------------------------------------------------------
\* Properties of simple_tools
\* ------------------------------------------------------------------------
QuickReturned == script.call = "quick" /\ script.pc = "ready"

\* C12: every quick-access function returns None, reports 'Not connected'
\* and sends nothing unless a call of connect() has returned True and
\* disconnect() has not been called since; in particular after connect()
\* returned False.
C12_QuickAccessNeedsConnect ==
    QuickReturned /\ ~script.up =>
        /\ script.ret = Returned(Null)
        /\ script.printed = NotConnected
        /\ script.sent = <<>>

\* ------------------------------------------------------------------------
\* Properties of the receive loop of _send_tcp_command
\* ------------------------------------------------------------------------
\* the command last called was written on an established connection, was
\* answered by one JSON object and has returned without close or error of
\* the transport, like every command before it on this connection
OrderlyReturn(c) ==
    LastCall(c, "tcp_command") /\ Established(c) /\ hist[c].orderly

\* C13: however the endpoint's reply (one JSON object) is split into chunks,
\* the command returns the decoding of the complete reply
C13_ReturnsCompleteReply ==
    \A c \in Clients :
        OrderlyReturn(c) =>
            /\ ret[c].raised = ""
            /\ ret[c].val = json_loads(hist[c].reply).val

\* some prefix of the bytes is a complete JSON document
HasDocument(s) == \E k \in 1..Len(s) : json_loads(SubSeq(s, 1, k)).kind = "ok"

\* C14: a command that has received a complete JSON document from the
\* endpoint has returned, or has more bytes of the endpoint's answers on
\* their way to it: it is not left in recv, which has no timeout, waiting
\* for the endpoint to close
C14_NoWaitAfterDocument ==
    \A c \in Clients :
        pc[c] = "recv" /\ HasDocument(response_data[c]) =>
            sockets[c][tcp_socket[c]].rx # <<>>

\* C15: commands issued one after another on one connection, each answered
\* by one JSON object: every call writes one JSON document on the
\* connection and returns the decoding of the answer to its own command, and
\* leaves no byte of that answer unread for the next call
C15_EachCallGetsItsReply ==
    \A c \in Clients :
        OrderlyReturn(c) =>
            /\ wire[c].sock = tcp_socket[c]
            /\ json_loads(wire[c].data).kind = "ok"
            /\ ret[c] = Returned(json_loads(hist[c].reply).val)
            /\ sockets[c][tcp_socket[c]].rx = <<>>

\* ------------------------------------------------------------------------
\* Properties of disconnect
\* ------------------------------------------------------------------------
\* C16 (a disconnect call): it returns None without raising, leaves both
\* references None, has made one more close on every socket the client
\* referenced and none on the others, also when a close raises; called
\* with no socket referenced it changes nothing
C16_DisconnectStep ==
    \A c \in Clients :
        IsCall(c, "disconnect") =>
            /\ ret'[c] = Returned(Null)
            /\ pc'[c] = "ready"
            /\ tcp_socket'[c] = None /\ udp_socket'[c] = None
            /\ Len(sockets'[c]) = Len(sockets[c])
            /\ \A s \in 1..Len(sockets[c]) :
                  IF s \in Held(c)
                  THEN /\ sockets'[c][s].n_close = sockets[c][s].n_close + 1
                       /\ sockets'[c][s].state = "closed"
                  ELSE sockets'[c][s] = sockets[c][s]
            /\ Held(c) = {} => sockets'[c] = sockets[c]

\* C16 (after a disconnect): until the next connect of that kind, a TCP
\* command and a UDP command raise ConnectionError and send nothing
C16_CommandsRaiseAfterDisconnect ==
    \A c \in Clients :
        /\ LastCall(c, "tcp_command") /\ hist[c].tcp = "disconnected" =>
              /\ ret[c] = Raised("ConnectionError", NotConnectedTcp)
              /\ wire[c] = NoWrite
        /\ LastCall(c, "udp_command") /\ hist[c].udp = "disconnected" =>
              /\ ret[c] = Raised("ConnectionError", NotConnectedUdp)
              /\ wire[c] = NoWrite
        /\ LastCall(c, "disconnect") => Held(c) = {}

C16_Disconnect == []C16_CommandsRaiseAfterDisconnect /\ [][C16_DisconnectStep]_vars

\* a disconnect in which a close raised has returned on a client that held
\* a TCP and a UDP socket
C16_Witness ==
    \E c \in Clients :
        /\ LastCall(c, "disconnect")
        /\ how[c] = "close_error"
        /\ \E s, u \in 1..Len(sockets[c]) :
              /\ sockets[c][s].kind = "tcp" /\ sockets[c][s].n_close = 1
              /\ sockets[c][u].kind = "udp" /\ sockets[c][u].n_close = 1

\* ------------------------------------------------------------------------
\* Properties of the sockets a client creates
\* ------------------------------------------------------------------------
\* C17: between calls, every socket the client has created is referenced
\* by tcp_socket or udp_socket, or is closed
C17_NoSocketOpenAndUnreferenced ==
    \A c \in Clients :
        pc[c] = "ready" =>
            \A s \in 1..Len(sockets[c]) :
                s \in Held(c) \/ sockets[c][s].state = "closed"

\* ------------------------------------------------------------------------
\* Properties of a transport error in _send_tcp_command
\* ------------------------------------------------------------------------
\* the step ends a TCP command by an exception of sendall or recv
TransportErrorStep(c) ==
    /\ IsCall(c, "tcp_command") \/ pc[c] = "recv"
    /\ pc'[c] = "ready"
    /\ how'[c] \in {"send_error", "recv_error"}

\* C18: a TCP command ended by an exception of sendall or recv returns the
\* error dictionary with the exception's text and leaves both references
\* and every socket's state and close count as they were; a close is made
\* on a socket only by disconnect
C18_TransportErrorStep ==
    \A c \in Clients :
        /\ TransportErrorStep(c) =>
              /\ ret'[c] \in {Returned(ErrorDict(EPIPE)), Returned(ErrorDict(ECONNRESET))}
              /\ tcp_socket'[c] = tcp_socket[c]
              /\ udp_socket'[c] = udp_socket[c]
              /\ Len(sockets'[c]) = Len(sockets[c])
              /\ \A s \in 1..Len(sockets[c]) :
                    /\ sockets'[c][s].state = sockets[c][s].state
                    /\ sockets'[c][s].n_close = sockets[c][s].n_close
                    /\ sockets'[c][s].n_connect = sockets[c][s].n_connect
              /\ sockets'[c][tcp_socket[c]].state # "closed"
        /\ \A s \in 1..Len(sockets[c]) :
              s <= Len(sockets'[c]) /\ sockets'[c][s].n_close # sockets[c][s].n_close
                  => IsCall(c, "disconnect") /\ s \in Held(c)

C18_TransportErrorLeavesClient == [][C18_TransportErrorStep]_vars

\* a command on an established connection has returned the error of a recv
\* that raised before the whole answer was received; the socket is still
\* referenced and no close was made on it
C18_Witness ==
    \E c \in Clients :
        /\ LastCall(c, "tcp_command")
        /\ how[c] = "recv_error"
        /\ ret[c] = Returned(ErrorDict(ECONNRESET))
        /\ Established(c)
        /\ sockets[c][tcp_socket[c]].n_close = 0
        /\ sockets[c][tcp_socket[c]].rx # <<>>

\* ------------------------------------------------------------------------
\* Concurrent tool invocations
\* ------------------------------------------------------------------------
\* two invocations run at the same time (two threads, or two coroutines of
\* an agent), each of one of two adapters; they interleave at every connect,
\* send and recv
Invocations == {1, 2}

ConcurrentTools == {1, 2}

ConcurrentReplies == {ReplyEmptyObject, ReplyNonAscii}

InitConcurrent ==
    /\ sockets = [c \in Invocations |-> NewClient.sockets]
    /\ tcp_socket = [c \in Invocations |-> NewClient.tcp_socket]
    /\ udp_socket = [c \in Invocations |-> NewClient.udp_socket]
    /\ response_data = [c \in Invocations |-> NewClient.response_data]
    /\ pc = [c \in Invocations |-> NewClient.pc]
    /\ ret = [c \in Invocations |-> NewClient.ret]
    /\ wire = [c \in Invocations |-> NewClient.wire]
    /\ how = [c \in Invocations |-> NewClient.how]
    /\ run = [c \in Invocations |-> NoRun]
    /\ loaded = <<>>
    /\ hist = [c \in Invocations |-> NoHist]
    /\ script = NoScript

NextConcurrent ==
    \/ loaded = <<>> /\ LoadTools
    \/ \E c \in Invocations, i \in ConcurrentTools \cap (1..Len(loaded)) :
         \E kwargs \in KwargSets(loaded[i].args_schema),
            outcome \in {"connected", "refused"} :
              ToolStart(c, i, kwargs, outcome)
    \/ \E c \in Invocations, reply \in ConcurrentReplies \cup {<<>>} :
         ToolSend(c, IF reply = <<>> THEN "send_error" ELSE "sent", reply)
    \/ \E c \in Invocations : \E ev \in RecvEvents(World(ClientOf(c))) : ToolRecv(c, ev)
    \/ \E c \in Invocations : ToolReset(c)

SpecConcurrent == InitConcurrent /\ [][NextConcurrent]_vars

\* the client of invocation r changes in the step
ClientChanges(r) ==
    \/ sockets'[r] # sockets[r]
    \/ tcp_socket'[r] # tcp_socket[r]
    \/ udp_socket'[r] # udp_socket[r]
    \/ response_data'[r] # response_data[r]
    \/ pc'[r] # pc[r]
    \/ ret'[r] # ret[r]
    \/ wire'[r] # wire[r]
    \/ how'[r] # how[r]

\* what _run returns, as its own inputs and the events on its own
\* connection determine it
OwnResults(r) ==
    CASE ~run[r].connected -> {FailedToConnect}
      [] how[r] = "send_error" -> {json_dumps_indent2(ErrorDict(EPIPE))}
      [] how[r] = "recv_error" -> {json_dumps_indent2(ErrorDict(ECONNRESET))}
      [] how[r] = "closed" -> {json_dumps_indent2(Null)}
      [] how[r] = "decoded" -> {json_dumps_indent2(json_loads(run[r].reply).val)}
      [] OTHER -> {json_dumps_indent2(ErrorDict(Utf8Error(SubSeq(run[r].reply, 1, k))))
                     : k \in {n \in 1..Len(run[r].reply) :
                                 BadUtf8(SubSeq(run[r].reply, 1, n)) # {}}}

\* C19 (states): an invocation that waits for its reply has one socket of
\* its own, on which it wrote its own command once and on which the bytes
\* read and still to read are the endpoint's answer to it; what a finished
\* invocation returns is determined by its own inputs and connection
C19_OwnConnection ==
    \A r \in Invocations :
        /\ run[r].pc = "command" =>
              /\ Len(sockets[r]) = 1 /\ tcp_socket[r] = 1
              /\ sockets[r][1].n_connect = 1 /\ sockets[r][1].n_send = 1
              /\ wire[r] = [sock |-> 1,
                            data |-> json_dumps(ToolCommand(loaded[run[r].tool],
                                                            run[r].kwargs))]
              /\ response_data[r] \o sockets[r][1].rx = run[r].reply
        /\ run[r].pc = "done" => run[r].result \in OwnResults(r)

\* C19 (steps): a step changes the client of one invocation at most, and
\* the position and locals of no other invocation
C19_OwnStep ==
    \A r, q \in Invocations :
        r # q => ~(ClientChanges(r) /\ (ClientChanges(q) \/ run'[q] # run[q]))

C19_NoSharedState == []C19_OwnConnection /\ [][C19_OwnStep]_vars

\* both invocations have sent, one has returned its decoded reply while the
\* other still waits with part of a different reply received
C19_Witness ==
    \E r, q \in Invocations :
        /\ run[r].pc = "done" /\ how[r] = "decoded"
        /\ run[q].pc = "command" /\ response_data[q] # <<>>
        /\ run[q].reply # run[r].reply
        /\ run[q].tool # run[r].tool

\* ------------------------------------------------------------------------
\* Properties of simple_tools.create_track and create_clip
\* ------------------------------------------------------------------------
\* the function in progress or last called is create_track or create_clip
Creating ==
    /\ script.call = "quick"
    /\ script.printed = ""
    /\ quick_access[script.fn].then # ""

\* the endpoint's answer to the creation, decoded
Created == json_loads(script.reply)

CreationSucceeded ==
    /\ Created.kind = "ok"
    /\ Created.val.t = "obj"
    /\ Get(Created.val, "status") = Str("success")

\* the rename that belongs to the call: its arguments are the index found in
\* the answer to create_midi_track, or the indices the caller gave (the
\* default 0 for a clip_index not given), and the name
ExpectedRename ==
    LET f == quick_access[script.fn]
        a == script.args
        name == a["name"]
    IN  IF f.name = "create_track"
        THEN Command(set_track_name,
                     <<Get(Get(Created.val, "result"), "index"), name>>)
        ELSE Command(set_clip_name,
                     <<a["track_index"],
                       IF "clip_index" \in DOMAIN a THEN a["clip_index"] ELSE Num(<<"0">>),
                       name>>)

\* C20: create_track and create_clip send at most two commands, the creation
\* first; they come to the rename only after the creation was answered
\* with status 'success' and when a name (not empty) was given, the rename
\* they write is the expected one, and having written it they return the
\* answer to the creation whatever the rename's outcome
C20_RenameOnlyAfterSuccess ==
    Creating =>
        LET f == quick_access[script.fn]
            a == script.args
            Renaming == script.pc \in {"then", "second"} \/ Len(script.sent) = 2
        IN  /\ Len(script.sent) <= 2
            /\ script.sent # <<>> =>
                  script.sent[1] = json_dumps(Command(f.method, CallArgs(f, a)))
            /\ Renaming =>
                  /\ CreationSucceeded
                  /\ "name" \in DOMAIN a /\ a["name"] \notin {Null, Str("")}
            /\ Len(script.sent) = 2 =>
                  /\ script.sent[2] = json_dumps(ExpectedRename)
                  /\ script.pc = "ready" => script.ret = Returned(Created.val)
            /\ ~CreationSucceeded => Len(script.sent) <= 1

\* create_track("a") has returned the answer to create_midi_track after a
\* rename that was answered with an error
C20_Witness ==
    /\ Creating
    /\ quick_access[script.fn].name = "create_track"
    /\ script.pc = "ready"
    /\ Len(script.sent) = 2
    /\ script.ret = Returned(json_loads(ReplySuccess).val)
    /\ \E c \in Clients : ret[c] = Returned(json_loads(ReplyError).val)

\* create_clip(1, name="a") has returned after writing both commands
C20_WitnessClip ==
    /\ Creating
    /\ quick_access[script.fn].name = "create_clip"
    /\ script.pc = "ready"
    /\ Len(script.sent) = 2
    /\ "clip_index" \notin DOMAIN script.args

\* ------------------------------------------------------------------------
\* Properties of the UDP variants of the parameter updates
\* ------------------------------------------------------------------------
\* each UDP method with the TCP method it is the variant of
UdpVariants ==
    << <<set_device_parameter_udp, set_device_parameter>>,
       <<batch_set_device_parameters_udp, batch_set_device_parameters>> >>

TcpVariantOf(name) ==
    UdpVariants[CHOOSE k \in 1..Len(UdpVariants) : UdpVariants[k][1].name = name][2]

\* C21: a UDP parameter update writes, on the UDP socket and without
\* waiting for a reply, the command document its TCP variant builds from
\* the same arguments; the TCP variant writes on the TCP socket and reads
C21_UdpVariantSameDocument ==
    /\ \A k \in 1..Len(UdpVariants) :
          LET u == UdpVariants[k][1]
              t == UdpVariants[k][2]
          IN  /\ u.transport = "udp" /\ t.transport = "tcp"
              /\ \A pos \in MethodArgs(u) \cup MethodArgs(t) : Command(u, pos) = Command(t, pos)
    /\ UdpMethods = {UdpVariants[k][1] : k \in 1..Len(UdpVariants)}
    /\ \A c \in Clients :
          /\ LastCall(c, "udp_command") /\ how[c] = "sent" =>
                /\ wire[c].data =
                      json_dumps(Command(TcpVariantOf(hist[c].method), hist[c].args))
                /\ wire[c].sock = udp_socket[c]
                /\ sockets[c][udp_socket[c]].kind = "udp"
          /\ pc[c] = "recv" =>
                /\ wire[c].sock = tcp_socket[c]
                /\ sockets[c][tcp_socket[c]].kind = "tcp"

\* set_device_parameter_udp has written its document and returned True
C21_Witness ==
    \E c \in Clients :
        /\ LastCall(c, "udp_command")
        /\ hist[c].method = "set_device_parameter_udp"
        /\ how[c] = "sent"
        /\ ret[c] = Returned(Bool(TRUE))
        /\ wire[c].data = json_dumps(Command(set_device_parameter, hist[c].args))

\* ------------------------------------------------------------------------
\* The scripts test_connection and example_usage
\* ------------------------------------------------------------------------
\* a run of a script function: call is its name, client its local client,
\* result the reply of its first command, ret what it returned or the
\* exception that left it, printed its closing report, up whether
\* connect_tcp returned True, sent the documents written
AllTestsPassed == "All tests passed! AbletonMCP is working correctly."

\* {"status": "success", "result": {"parameters": [1]}}
ReplyParameters ==
    json_dumps(Obj(<< <<"status", Str("success")>>,
                      <<"result", Obj(<< <<"parameters", Arr(<<Num(<<"1">>)>>)>> >>)>> >>))

\* {"status": "success", "result": {"parameters": []}}
ReplyNoParameters ==
    json_dumps(Obj(<< <<"status", Str("success")>>,
                      <<"result", Obj(<< <<"parameters", Arr(<<>>)>> >>)>> >>))

RunReplies == {ReplySuccess, ReplySuccessOnly, ReplyError, ReplyParameters, ReplyNoParameters}

\* Python truth of a value
TruthyValue(v) ==
    v \notin {Null, Bool(FALSE), Str(""), Arr(<<>>), Obj(<<>>), Num(<<"0">>)}

\* the first command of a script function
FirstCommand(call) ==
    IF call = "test_connection"
    THEN Command(get_session_info, <<>>)
    ELSE Command(get_device_parameters, <<Num(<<"0">>), Num(<<"1">>)>>)

\* the function returns value v: the script's state
Exits(s, r, printed) == [s EXCEPT !.pc = "ready", !.ret = r, !.printed = printed]

\* test_connection once get_session_info has returned v: session_info.get
\* and session_info["result"] may raise; the handler returns False
TestAfterCommand(s, v) ==
    CASE v.t # "obj" -> Exits(s, Returned(Bool(FALSE)), "Error: object has no attribute 'get'")
      [] Get(v, "status") = Str("success") /\ ~HasKey(v, "result") ->
           Exits(s, Returned(Bool(FALSE)), "Error: 'result'")
      [] OTHER -> [s EXCEPT !.pc = "udp"]

\* def test_connection: client = AbletonMCPClient(); client.connect_tcp();
\* when it fails the function returns False through the finally clause
TestStart(c, outcome) ==
    /\ script.pc = "ready"
    /\ LET w == connect_tcp(NewClient, outcome)
           s == [NoScript EXCEPT !.call = "test_connection", !.client = c,
                                 !.up = w.ret.val = Bool(TRUE)]
       IN  IF s.up
           THEN /\ Commit(c, w)
                /\ script' = [s EXCEPT !.pc = "connected"]
           ELSE /\ Commit(c, disconnect(w, "closed", "closed"))
                /\ script' = Exits(s, Returned(Bool(FALSE)), "TCP connection failed")
    /\ UNCHANGED <<run, loaded, hist>>

\* the rest of test_connection from the return of get_session_info, up to
\* the connect_udp or through the handler and the finally clause
TestReturned(c, s, w) ==
    LET s1 == TestAfterCommand([s EXCEPT !.result = w.ret], w.ret.val)
    IN  /\ script' = s1
        /\ Commit(c, IF s1.pc = "ready" THEN disconnect(w, "closed", "closed") ELSE w)

\* session_info = client.get_session_info(), up to its first recv
TestSend(c, reply) ==
    /\ script.call = "test_connection" /\ script.pc = "connected"
    /\ LET w0 == [World(c) EXCEPT !.wire = NoWrite, !.ret = Returned(Null), !.how = ""]
           w == send_tcp_command(w0, FirstCommand(script.call),
                                 IF reply = <<>> THEN "send_error" ELSE "sent", reply)
           s == [script EXCEPT !.reply = reply, !.sent = Sent(script, w)]
       IN  IF w.pc = "recv"
           THEN Commit(c, w) /\ script' = [s EXCEPT !.pc = "first"]
           ELSE TestReturned(c, s, w)
    /\ UNCHANGED <<run, loaded, hist>>

\* one recv of get_session_info
TestRecv(c, ev) ==
    /\ script.call = "test_connection" /\ script.pc = "first"
    /\ LET w == recv_tcp_command(World(c), ev)
       IN  IF w.pc = "recv"
           THEN Commit(c, w) /\ UNCHANGED script
           ELSE TestReturned(c, script, w)
    /\ UNCHANGED <<run, loaded, hist>>

\* client.connect_udp(), the closing report, return True, and the finally
\* clause
TestUdp(c, outcome) ==
    /\ script.call = "test_connection" /\ script.pc = "udp"
    /\ Commit(c, disconnect(connect_udp(World(c), outcome), "closed", "closed"))
    /\ script' = Exits(script, Returned(Bool(TRUE)), AllTestsPassed)
    /\ UNCHANGED <<run, loaded, hist>>

\* example_device_management once get_device_parameters has returned v:
\* device_params["result"]["parameters"] is printed before the status is
\* looked at, and an exception leaves the function
ExampleAfterCommand(s, v) ==
    LET Leaves(cls, msg) == Exits(s, Raised(cls, msg), "")
    IN  CASE v.t \notin {"obj", "arr", "str"} ->
               Leaves("TypeError", "object is not subscriptable")
          [] v.t \in {"arr", "str"} ->
               Leaves("TypeError", "indices must be integers or slices, not str")
          [] ~HasKey(v, "result") -> Leaves("KeyError", "'result'")
          [] Get(v, "result").t # "obj" ->
               Leaves("TypeError", "object is not subscriptable")
          [] ~HasKey(Get(v, "result"), "parameters") -> Leaves("KeyError", "'parameters'")
          [] Get(v, "status") = Str("success")
               /\ TruthyValue(Get(Get(v, "result"), "parameters")) -> [s EXCEPT !.pc = "then"]
          [] OTHER -> [s EXCEPT !.pc = "end"]

\* the commands example_device_management sends after the first
LaterCommand(pos) ==
    IF pos = "then"
    THEN Command(set_device_parameter,
                 <<Num(<<"0">>), Num(<<"1">>), Num(<<"7">>),
                   Num(<<"0", ".", "1", "6", "6", "6", "6", "6", "6", "6", "6", "6", "6",
                         "6", "6", "6", "6", "6", "6">>)>>)
    ELSE Command(batch_set_device_parameters,
                 <<Num(<<"0">>), Num(<<"1">>),
                   Arr(<<Num(<<"7">>), Num(<<"1", "7">>), Num(<<"2", "7">>), Num(<<"3", "7">>)>>),
                   Arr(<<Num(<<"0", ".", "2">>), Num(<<"0", ".", "6">>), Num(<<"0", ".", "7">>),
                         Num(<<"0", ".", "9">>)>>)>>)

\* the position after the command sent from position pos has returned
AfterLater(pos) == IF pos \in {"then", "second"} THEN "then2" ELSE "end"

\* def example_device_management: client = AbletonMCPClient();
\* client.connect_tcp(); when it fails the function returns
ExampleStart(c, outcome) ==
    /\ script.pc = "ready"
    /\ LET w == connect_tcp(NewClient, outcome)
           s == [NoScript EXCEPT !.call = "example_device_management", !.client = c,
                                 !.up = w.ret.val = Bool(TRUE)]
       IN  /\ Commit(c, w)
           /\ script' = IF s.up THEN [s EXCEPT !.pc = "connected"] ELSE s
    /\ UNCHANGED <<run, loaded, hist>>

\* device_params = client.get_device_parameters(0, 1), up to its first recv
ExampleSend(c, reply) ==
    /\ script.call = "example_device_management" /\ script.pc = "connected"
    /\ LET w0 == [World(c) EXCEPT !.wire = NoWrite, !.ret = Returned(Null), !.how = ""]
           w == send_tcp_command(w0, FirstCommand(script.call),
                                 IF reply = <<>> THEN "send_error" ELSE "sent", reply)
           s == [script EXCEPT !.reply = reply, !.sent = Sent(script, w)]
       IN  /\ Commit(c, w)
           /\ script' = IF w.pc = "recv" THEN [s EXCEPT !.pc = "first"]
                        ELSE ExampleAfterCommand([s EXCEPT !.result = w.ret], w.ret.val)
    /\ UNCHANGED <<run, loaded, hist>>

\* client.set_device_parameter(0, 1, 7, normalized_value) and
\* client.batch_set_device_parameters(0, 1, param_indices, param_values), up
\* to the first recv; what they return is not looked at
ExampleLater(c, reply) ==
    /\ script.call = "example_device_management" /\ script.pc \in {"then", "then2"}
    /\ LET w0 == [World(c) EXCEPT !.wire = NoWrite, !.ret = Returned(Null), !.how = ""]
           w == send_tcp_command(w0, LaterCommand(script.pc),
                                 IF reply = <<>> THEN "send_error" ELSE "sent", reply)
           s == [script EXCEPT !.sent = Sent(script, w)]
       IN  /\ Commit(c, w)
           /\ script' = IF w.pc = "recv"
                        THEN [s EXCEPT !.pc = IF script.pc = "then" THEN "second" ELSE "third"]
                        ELSE [s EXCEPT !.pc = AfterLater(script.pc)]
    /\ UNCHANGED <<run, loaded, hist>>

\* one recv of the client method the function is in
ExampleRecv(c, ev) ==
    /\ script.call = "example_device_management"
    /\ script.pc \in {"first", "second", "third"}
    /\ LET w == recv_tcp_command(World(c), ev)
       IN  /\ Commit(c, w)
           /\ script' = CASE w.pc = "recv" -> script
                          [] script.pc = "first" ->
                               ExampleAfterCommand([script EXCEPT !.result = w.ret], w.ret.val)
                          [] OTHER -> [script EXCEPT !.pc = AfterLater(script.pc)]
    /\ UNCHANGED <<run, loaded, hist>>

\* client.disconnect() at the end of example_device_management
ExampleEnd(c, tcp_close) ==
    /\ script.call = "example_device_management" /\ script.pc = "end"
    /\ Commit(c, disconnect(World(c), tcp_close, "closed"))
    /\ script' = Exits(script, Returned(Null), "")
    /\ UNCHANGED <<run, loaded, hist>>

NextScripts ==
    \/ \E c \in Clients, outcome \in {"connected", "refused", "socket_error"} :
         TestStart(c, outcome)
    \/ \E c \in Clients, reply \in RunReplies \cup {<<>>} : TestSend(c, reply)
    \/ \E c \in Clients : \E ev \in WholeEvents(World(c)) : TestRecv(c, ev)
    \/ \E c \in Clients, outcome \in {"created", "socket_error"} : TestUdp(c, outcome)
    \/ \E c \in Clients, outcome \in {"connected", "refused", "socket_error"} :
         ExampleStart(c, outcome)
    \/ \E c \in Clients, reply \in RunReplies \cup {<<>>} : ExampleSend(c, reply)
    \/ \E c \in Clients, reply \in RunReplies \cup {<<>>} : ExampleLater(c, reply)
    \/ \E c \in Clients : \E ev \in WholeEvents(World(c)) : ExampleRecv(c, ev)
    \/ \E c \in Clients, tcp_close \in {"closed", "raises"} : ExampleEnd(c, tcp_close)

SpecScripts == Init /\ [][NextScripts]_vars

\* ------------------------------------------------------------------------
\* Properties of the scripts
\* ------------------------------------------------------------------------
ScriptReturned(call) == script.call = call /\ script.pc = "ready"

\* the client of the script has no socket referenced and none left unclosed
Disconnected(c) ==
    /\ tcp_socket[c] = None /\ udp_socket[c] = None
    /\ \A s \in 1..Len(sockets[c]) : sockets[c][s].state = "closed"

\* C22: test_connection returns True or False, True with the report 'All
\* tests passed' only when connect_tcp succeeded, get_session_info returned
\* status 'success' and connect_udp succeeded; the client is disconnected
\* at every return
C22_PassOnlyIfAllSucceeded ==
    ScriptReturned("test_connection") =>
        /\ script.ret \in {Returned(Bool(TRUE)), Returned(Bool(FALSE))}
        /\ (script.printed = AllTestsPassed) = (script.ret = Returned(Bool(TRUE)))
        /\ script.ret = Returned(Bool(TRUE)) =>
              /\ script.up
              /\ script.result.val.t = "obj"
              /\ Get(script.result.val, "status") = Str("success")
              /\ \E s \in 1..Len(sockets[script.client]) :
                    sockets[script.client][s].kind = "udp"
        /\ Disconnected(script.client)

\* C23: example_device_management, once its connect_tcp has succeeded,
\* exits with the client disconnected
C23_ExampleDisconnects ==
    ScriptReturned("example_device_management") /\ script.up =>
        Disconnected(script.client)

\* ------------------------------------------------------------------------
\* prepare_tools_for_llm
\* ------------------------------------------------------------------------
\* the JSON type prepare_tools_for_llm gives a field: the annotation is
\* compared with int, float, bool and list themselves, so Optional[...] and
\* List[...] annotations, like str, give "string"
ParamType(annotation) ==
    CASE annotation = "int" -> "integer"
      [] annotation = "float" -> "number"
      [] annotation = "bool" -> "boolean"
      [] OTHER -> "string"

\* the fields whose FieldInfo.default is None. A field declared without a
\* default has the default PydanticUndefined, which is not None
DefaultIsNone(schema) ==
    SelectSeq([i \in 1..Len(schema.fields) |-> schema.fields[i]], LAMBDA f : f[3] = Null)

\* the function schema built for one tool (its description strings are left
\* out)
FunctionSchema(tool) ==
    LET fields == tool.args_schema.fields
        none == DefaultIsNone(tool.args_schema)
    IN  Obj(<< <<"name", Str(tool.name)>>,
               <<"parameters",
                 Obj(<< <<"type", Str("object")>>,
                        <<"properties",
                          Obj([i \in 1..Len(fields) |->
                                 <<fields[i][1],
                                   Obj(<< <<"type", Str(ParamType(fields[i][2]))>> >>)>>])>>,
                        <<"required",
                          Arr([i \in 1..Len(none) |-> Str(none[i][1])])>> >>)>> >>)

prepare_tools_for_llm(tools) == Arr([i \in 1..Len(tools) |-> FunctionSchema(tools[i])])

\* the caller holds a list of tools: any run of consecutive tools of
\* get_ableton_tools()
TakeTools(a, b) ==
    /\ script.pc = "ready"
    /\ loaded' = SubSeq(get_ableton_tools, a, b)
    /\ script' = NoScript
    /\ UNCHANGED <<sockets, tcp_socket, udp_socket, response_data, pc, ret, wire, how, run,
                   hist>>

\* functions = prepare_tools_for_llm(tools)
PrepareTools ==
    /\ script.pc = "ready" /\ script.call = ""
    /\ script' = [NoScript EXCEPT !.call = "prepare_tools_for_llm",
                                  !.ret = Returned(prepare_tools_for_llm(loaded))]
    /\ UNCHANGED <<sockets, tcp_socket, udp_socket, response_data, pc, ret, wire, how, run,
                   loaded, hist>>

NextPrepare ==
    \/ \E a \in 1..Len(get_ableton_tools) : \E b \in a..Len(get_ableton_tools) : TakeTools(a, b)
    \/ PrepareTools

SpecPrepare == Init /\ [][NextPrepare]_vars

\* C24: prepare_tools_for_llm returns one function schema per tool, in the
\* order of the tools and with their names, with one property per field of
\* the tool's args_schema, and 'required' lists exactly the fields that have
\* no default
C24_RequiredIsNoDefault ==
    script.call = "prepare_tools_for_llm" =>
        LET fs == script.ret.val.a IN
        /\ Len(fs) = Len(loaded)
        /\ \A i \in 1..Len(fs) :
              LET schema == loaded[i].args_schema
                  params == Get(fs[i], "parameters")
                  props == Get(params, "properties").o
                  required == Get(params, "required").a
              IN  /\ Get(fs[i], "name") = Str(loaded[i].name)
                  /\ [k \in 1..Len(props) |-> props[k][1]]
                        = [k \in 1..Len(schema.fields) |-> schema.fields[k][1]]
                  /\ {required[k].s : k \in 1..Len(required)} = RequiredFields(schema)

====
